---- MODULE Spec2Model ----
(***************************************************************************)
(* Conversational multi-agent orchestration core of legal_docs_api:        *)
(*   - the event stream adapter of SupervisorSystemManager                 *)
(*     (multi_agent_system/system_manager.py),                             *)
(*   - the human-in-the-loop tool wrapper (multi_agent_system/tools.py),   *)
(*   - the WebSocket chat loop (app/routers/ai_chat_ws.py).                *)
(*                                                                         *)
(*   - SupervisorSystemManager.build (system_manager.py, utils.py),        *)
(*   - the checkpointer globals (multi_agent_system/database.py).          *)
(*   - create_agent of the three sub-agent managers (agents/*.py),         *)
(*   - the handoff tool factory (multi_agent_system/tools.py),             *)
(*   - the client routes and the email lookups (app/routers/client.py,     *)
(*     storage/data_manager.py, multi_agent_system/agent.py, tools.py).    *)
(*                                                                         *)
(* The specifications share the definitions below:                         *)
(*   SpecNorm  the adapter applied to arbitrary raw graph event sequences  *)
(*   SpecTool  the wrapper applied to arbitrary inputs, replies and        *)
(*             classifier / base tool outcomes                             *)
(*   Spec      one user's thread driven through WebSocket sessions         *)
(*   SpecBuild build() over every combination of builder outcomes, and     *)
(*             what the endpoint does with its result                      *)
(*   SpecCkpt  interleaved get_checkpointer / close_checkpointer calls     *)
(*   SpecClients  client routes and email lookups of two users             *)
(*   SpecAgents   create_agent over credentials and failing calls          *)
(*   SpecHandoff  the handoff tool over its arguments and runtime          *)
(*   SpecTwo   two open connections of one user over the one thread        *)
(***************************************************************************)
EXTENDS Integers, Sequences, FiniteSets, TLC

(***************************************************************************)
(* Bounds of the model.                                                    *)
(***************************************************************************)
\* frames read on the two connections of one user
MaxTurns == 4
\* rows the client table ever holds (primary keys handed out)
MaxClients == 2
\* get_checkpointer calls, close_checkpointer calls of one process
MaxCalls == 3
MaxClose == 2
\* raw graph events of one astream run
MaxRaw == 3
\* characters of a tool input's message field
MaxMsgLen == 2
\* tokens of a classifier response
MaxIntentLen == 2
\* client frames received over the life of the thread
MaxFrames == 3
\* raw graph events of one astream run inside a session
MaxRun == 2

(***************************************************************************)
(* Program constants.                                                      *)
(***************************************************************************)
MAX_MESSAGE_LENGTH == 40000
\* starlette.status close codes used by the router
WS_1008_POLICY_VIOLATION == 1008
WS_1011_INTERNAL_ERROR == 1011

(***************************************************************************)
(* Raw graph events (what self._supervisor_agent.astream yields).          *)
(* A message is [kind, content, name, finish]: kind "ai" stands for an     *)
(* AIMessage instance, finish for response_metadata.get('finish_reason'),  *)
(* "None" for an absent value, "" for empty content.                       *)
(***************************************************************************)
Msg(kind, content, name, finish) ==
    [kind |-> kind, content |-> content, name |-> name, finish |-> finish]

AIHi      == Msg("ai", "Processing...", "email_agent", "None")
AINoName  == Msg("ai", "Hello from agent", "None", "None")
AIStop    == Msg("ai", "Done", "supervisor", "STOP")
AIEmpty   == Msg("ai", "", "supervisor", "STOP")
AILength  == Msg("ai", "Partial", "supervisor", "MAX_TOKENS")
HumanMsg  == Msg("human", "User input", "None", "None")

\* node_state: isdict FALSE stands for None or any non-dict / empty value
NodeState(isdict, messages) == [isdict |-> isdict, messages |-> messages]
NotADict   == NodeState(FALSE, <<>>)
NoMessages == NodeState(TRUE, <<>>)
Last(m)    == NodeState(TRUE, <<m>>)
Two(m1, m2) == NodeState(TRUE, <<m1, m2>>)

Node(name, state) == [name |-> name, state |-> state]

\* an event is a dict: the '__interrupt__' entry (absent iff interrupt = <<>>;
\* a dynamic interrupt always carries at least one Interrupt) and the node
\* entries in the dict's iteration order
Raw(interrupt, nodes) == [interrupt |-> interrupt, nodes |-> nodes]

ReservedNames == {"__start__"}
NodeNames == {"supervisor", "email_agent"} \cup ReservedNames

NodeEvents ==
    { Raw(<<>>, <<Node("supervisor", s)>>) :
        s \in {Last(AILength), Last(AIStop), Last(AIEmpty), Last(HumanMsg),
               Two(AIStop, HumanMsg), NoMessages, NotADict} }
    \cup
    { Raw(<<>>, <<Node("email_agent", s)>>) :
        s \in {Last(AIHi), Last(AIStop), Two(HumanMsg, AINoName)} }
    \cup
    { Raw(<<>>, <<Node("__start__", s)>>) : s \in {Last(AIHi), Last(AIStop)} }
    \cup
    { Raw(<<>>, <<Node("email_agent", Last(AIHi)), Node("supervisor", Last(AIStop))>>),
      Raw(<<>>, <<Node("supervisor", Last(AIStop)), Node("email_agent", Last(AIHi))>>),
      Raw(<<>>, <<Node("email_agent", Last(AIHi)), Node("supervisor", Last(AILength))>>) }

InterruptValues == {"confirm-1", "confirm-2"}

InterruptEvents ==
    { Raw(<<"confirm-1">>, <<>>),
      Raw(<<"confirm-2", "confirm-1">>, <<>>),
      Raw(<<"confirm-1">>, <<Node("supervisor", Last(AIStop))>>) }

RawEvents == NodeEvents \cup InterruptEvents

SeqsUpTo(S, n) == UNION { [1..k -> S] : k \in 0..n }

(***************************************************************************)
(* State.                                                                  *)
(***************************************************************************)
VARIABLES
    \* SpecNorm: one raw event sequence run through both streaming operations
    nRaw,       \* the raw events the mocked astream will yield
    nOp,        \* "stream" | "resume" | "done": the operation being iterated
    nPos,       \* raw events consumed by the current operation
    nOut,       \* normalized events yielded by the current operation
    nHalt,      \* the current operation's generator has returned
    nLast,      \* events yielded while consuming the latest raw event
    nOutS,      \* what stream_agent_events yielded for nRaw
    nPosS,      \* how many raw events stream_agent_events consumed
    \* SpecTool: one call of a wrapped tool, suspended then resumed
    tInput,     \* tool_input proposed by the agent
    tEmail,     \* the wrapper's email flag
    tReply,     \* the human reply the resume will carry
    tLlm,       \* what init_chat_model(llm).invoke(...) will do
    tTool,      \* what tool.invoke(...) will do: "ok" | "Exception"
    tPhase,     \* "new" | "suspended" | "finished"
    tOutcome,   \* how the latest execution of call_tool_with_interrupt ended
    tInvoked,   \* inputs the base tool has been invoked with, in order
    tCalls,     \* executions of call_tool_with_interrupt so far
    \* Spec: the chat loop of a WebSocket session over the user's thread
    pc,             \* "receive" | "stream" | "closed": where chat() stands
    interrupt_mode, \* chat()'s local flag
    data,           \* the frame read by the latest receive_text()
    op,             \* the generator behind event_stream: "none" | "stream" | "resume"
    frames,         \* frames sent to the client since the latest receive_text()
    gInput,         \* what the current astream run was started with
    gStarted,       \* the run has taken its first step
    gCount,         \* raw events the run has yielded
    gPending,       \* thread checkpoint: the suspended gated call, <<>> if none
    \* history of the session and of the thread
    nFrames,        \* frames received so far
    prevEnd,        \* how the latest turn's event loop ended
    prevFrames,     \* the frames of the turn before the current one
    outstanding,    \* interrupt events delivered and not yet answered
    call,           \* the latest call of a streaming operation by chat()
    hitl,           \* the latest gated tool call
    sendLog,        \* every invocation of the base send tool, with its grounds
    turn,           \* what the graph did in the current turn
    evSeen,         \* the events chat() took from event_stream in the current turn
    gExc,           \* the exception astream raised in this session, <<>> if none
    err,            \* the exception that reached the endpoint's handlers, <<>> if none
    closeCode,      \* the close code the server sent, 0 if it sent none
    \* SpecBuild: one build() of a SupervisorSystemManager
    bCreate,            \* what each sub-agent manager's create_agent() will do
    bSup,               \* what building the supervisor will do
    bPos,               \* managers the loop of build() has gone through
    bAttempted,         \* agent names whose create_agent() was awaited, in order
    built_agents,       \* build()'s local list
    built_handoff_tools, \* build()'s local list
    build_info,         \* SupervisorSystemManager.build_info
    bSupMgr,            \* the SupervisorAgentManager constructed, <<>> if none
    _supervisor_agent,  \* SupervisorSystemManager._supervisor_agent, <<>> for None
    bResult,            \* Running | ReturnedNone | RaisedExc(e): how build() stands
    bEndpoint,          \* "setup" | "chat" | "closed": websocket_endpoint after build()
    bFrames,            \* frames the endpoint sent
    \* SpecCkpt: the globals of database.py and the calls under way
    _connection_pool,   \* 0 for None, else the identity of the pool
    _checkpointer,      \* 0 for None, else the identity of the store handle
    kCall,              \* the get_checkpointer calls made so far, in order of entry
    kPools,             \* AsyncConnectionPool(...) constructions completed
    kSavers,            \* AsyncPostgresSaver(...) constructions completed
    kSetups,            \* setup() calls awaited
    kClose,             \* the close_checkpointer calls made so far
    \* SpecClients: the client table and the latest request on it
    client,             \* the rows of table "client", by primary key
    client_id_seq,      \* the last primary key the table handed out
    cLast,              \* the latest request or lookup and its answer
    \* SpecAgents: one create_agent() of a sub-agent manager
    aMgr,               \* the manager's agent_name
    aCred,              \* its google_credentials / legal_docs_token, "None" if absent
    aFault,             \* which call of the try block will raise, and what
    aCalls,             \* the calls of the try block made so far, in order
    aCaught,            \* the exception an except clause took, <<>> if none
    aResult,            \* Running | ReturnedAgent(a) | RaisedExc(e)
    \* SpecHandoff: one invocation of a handoff tool by the supervisor
    hTool,              \* the tool create_custom_handoff_tool returned
    hArgs,              \* the arguments of the tool call
    hRuntime,           \* the runtime context, <<>> if there is none
    hMessages,          \* the messages of the parent graph's state
    hBefore,            \* the messages before the tool call
    hSent,              \* the Sends the parent graph has dispatched
    hResult,            \* Running, the returned Command, or RaisedExc(e)
    \* SpecTwo: two connections of one user over the one thread
    wMode,              \* each connection's interrupt_mode
    wPc,                \* each connection's chat(): "receive" | "stream"
    wOp,                \* the generator each connection iterates or iterated last
    wThread,            \* thread checkpoint: the suspended gated call, <<>> if none
    wTurns,             \* frames read so far, on both connections
    wLast               \* the latest dispatch and the thread's state at that moment

sessVars == <<pc, interrupt_mode, data, op, frames, gInput, gStarted, gCount,
              gPending, nFrames, prevEnd, prevFrames, outstanding, call, hitl,
              sendLog, turn, evSeen, gExc, err, closeCode>>

toolVars == <<tInput, tEmail, tReply, tLlm, tTool, tPhase, tOutcome, tInvoked, tCalls>>

normVars == <<nRaw, nOp, nPos, nOut, nHalt, nLast, nOutS, nPosS>>

buildVars == <<bCreate, bSup, bPos, bAttempted, built_agents, built_handoff_tools,
               build_info, bSupMgr, _supervisor_agent, bResult, bEndpoint, bFrames>>

ckptVars == <<_connection_pool, _checkpointer, kCall, kPools, kSavers, kSetups, kClose>>

clientVars == <<client, client_id_seq, cLast>>

agentVars == <<aMgr, aCred, aFault, aCalls, aCaught, aResult>>

handoffVars == <<hTool, hArgs, hRuntime, hMessages, hBefore, hSent, hResult>>

twoVars == <<wMode, wPc, wOp, wThread, wTurns, wLast>>

vars == <<normVars, toolVars, sessVars, buildVars, ckptVars, clientVars, agentVars,
          handoffVars, twoVars>>

\* what each specification leaves at rest
notHandoff == <<normVars, toolVars, sessVars, buildVars, ckptVars, clientVars, agentVars,
      twoVars>>
notTwo == <<normVars, toolVars, sessVars, buildVars, ckptVars, clientVars, agentVars,
      handoffVars>>
notNorm == <<toolVars, sessVars, buildVars, ckptVars, clientVars, agentVars,
      handoffVars, twoVars>>
notTool == <<normVars, sessVars, buildVars, ckptVars, clientVars, agentVars,
      handoffVars, twoVars>>
notSess == <<normVars, toolVars, buildVars, ckptVars, clientVars, agentVars,
      handoffVars, twoVars>>
notBuild == <<normVars, toolVars, sessVars, ckptVars, clientVars, agentVars,
      handoffVars, twoVars>>
notCkpt == <<normVars, toolVars, sessVars, buildVars, clientVars, agentVars,
      handoffVars, twoVars>>
notClients == <<normVars, toolVars, sessVars, buildVars, ckptVars, agentVars,
      handoffVars, twoVars>>
notAgents == <<normVars, toolVars, sessVars, buildVars, ckptVars, clientVars,
      handoffVars, twoVars>>

(***************************************************************************)
(* SupervisorSystemManager._process_node_messages: <<>> for None, else a   *)
(* one-element sequence holding the event to yield.                        *)
(***************************************************************************)
startswith__(node_name) == node_name \in ReservedNames

_process_node_messages(node_name, node_state) ==
    IF startswith__(node_name) THEN <<>>
    ELSE IF ~node_state.isdict THEN <<>>
    ELSE IF node_state.messages = <<>> THEN <<>>
    ELSE LET last_message == node_state.messages[Len(node_state.messages)]
             \* getattr(last_message, 'name', node_name): every message
             \* object has the attribute, so the default is never used
             message_name == last_message.name
         IN  IF ~(last_message.content # "" /\ last_message.kind = "ai")
             THEN <<>>
             ELSE IF node_name = "supervisor" /\ last_message.finish = "STOP"
             THEN <<[type |-> "complete", content |-> last_message.content,
                     agent |-> message_name]>>
             ELSE <<[type |-> "message", content |-> last_message.content,
                     agent |-> message_name]>>

(***************************************************************************)
(* One iteration of `async for event in events` in stream_agent_events:    *)
(* the events yielded for one raw event and whether the generator returns. *)
(***************************************************************************)
\* mutant of stream_items: the `return` after a complete event is missing
RECURSIVE stream_items_no_return(_, _)
stream_items_no_return(nodes, i) ==
    IF i > Len(nodes) THEN [out |-> <<>>, halt |-> FALSE]
    ELSE LET result == _process_node_messages(nodes[i].name, nodes[i].state)
             rest == stream_items_no_return(nodes, i + 1)
         IN  [out |-> result \o rest.out, halt |-> rest.halt]

RECURSIVE stream_items(_, _)
stream_items(nodes, i) ==
    IF i > Len(nodes) THEN [out |-> <<>>, halt |-> FALSE]
    ELSE LET result == _process_node_messages(nodes[i].name, nodes[i].state)
         IN  IF result = <<>> THEN stream_items(nodes, i + 1)
             ELSE IF result[1].type = "complete"
             THEN [out |-> result, halt |-> TRUE]
             ELSE LET rest == stream_items(nodes, i + 1)
                  IN  [out |-> result \o rest.out, halt |-> rest.halt]

\* mutant of stream_agent_events: the `return` after the interrupt event is
\* missing, so the node entries are processed and iteration goes on
stream_agent_events_no_return(event) ==
    IF event.interrupt # <<>>
    THEN LET rest == stream_items(event.nodes, 1)
         IN  [out |-> <<[type |-> "interrupt", content |-> event.interrupt[1]]>>
                      \o rest.out,
              halt |-> rest.halt]
    ELSE stream_items(event.nodes, 1)

\* mutant of stream_agent_events: the node entries are gone through before
\* the '__interrupt__' test
stream_agent_events_nodes_first(event) ==
    LET rest == stream_items(event.nodes, 1)
    IN  IF event.interrupt # <<>>
        THEN [out |-> rest.out
                      \o <<[type |-> "interrupt", content |-> event.interrupt[1]]>>,
              halt |-> TRUE]
        ELSE rest

stream_agent_events(event) ==
    IF event.interrupt # <<>>
    THEN [out |-> <<[type |-> "interrupt", content |-> event.interrupt[1]]>>,
          halt |-> TRUE]
    ELSE stream_items(event.nodes, 1)

(***************************************************************************)
(* The same iteration in resume_agent_after_interrupt.                     *)
(***************************************************************************)
RECURSIVE resume_items(_, _)
resume_items(nodes, i) ==
    IF i > Len(nodes) THEN [out |-> <<>>, halt |-> FALSE]
    ELSE LET result == _process_node_messages(nodes[i].name, nodes[i].state)
         IN  IF result = <<>> THEN resume_items(nodes, i + 1)
             ELSE IF result[1].type = "complete"
             THEN [out |-> result, halt |-> TRUE]
             ELSE LET rest == resume_items(nodes, i + 1)
                  IN  [out |-> result \o rest.out, halt |-> rest.halt]

\* mutant of resume_agent_after_interrupt: reserved entries are not told
\* apart, every event is treated as node entries only
resume_agent_after_interrupt_nodes_only(event) ==
    resume_items(event.nodes, 1)

resume_agent_after_interrupt(event) ==
    IF event.interrupt # <<>>
    THEN [out |-> <<[type |-> "interrupt", content |-> event.interrupt[1]]>>,
          halt |-> TRUE]
    ELSE resume_items(event.nodes, 1)

(***************************************************************************)
(* Human-in-the-loop wrapper (tools.py, add_human_in_the_loop).            *)
(* Text is a sequence of characters; a classifier response is a sequence   *)
(* of tokens, each a word in some letter case or a blank.                  *)
(***************************************************************************)
Chars == {"a", "\n"}
Messages == SeqsUpTo(Chars, MaxMsgLen)
ToolInputs == [message : Messages, to : {"client@example.com"}, subject : {"Contract"}]
Replies == {"send it", "change subject"}

Tokens == {"proceed", "PROCEED", "changes", "cancel", " "}
LlmContents == SeqsUpTo(Tokens, MaxIntentLen)
\* the classifier either answers with content or raises
LlmOutcomes == [raises : {FALSE}, content : LlmContents]
                 \cup {[raises |-> TRUE, content |-> <<>>]}
ToolOutcomes == {"ok", "Exception"}

\* str.lower()
lower(text) == [i \in 1..Len(text) |-> IF text[i] = "PROCEED" THEN "proceed" ELSE text[i]]

\* str.strip()
RECURSIVE lstrip(_)
lstrip(text) ==
    IF text # <<>> /\ Head(text) = " " THEN lstrip(Tail(text)) ELSE text

RECURSIVE rstrip(_)
rstrip(text) ==
    IF text # <<>> /\ text[Len(text)] = " "
    THEN rstrip(SubSeq(text, 1, Len(text) - 1)) ELSE text

strip(text) == rstrip(lstrip(text))

\* `word in intent`
contains(intent, word) == \E i \in 1..Len(intent) : intent[i] = word

\* str.replace('\n', '<br>')
RECURSIVE replace_newlines(_)
replace_newlines(message) ==
    IF message = <<>> THEN <<>>
    ELSE (IF Head(message) = "\n" THEN <<"<", "b", "r", ">">> ELSE <<Head(message)>>)
         \o replace_newlines(Tail(message))

interrupt_value(tool_input) ==
    [text |-> "Check the data before the execution please: ", tool_input |-> tool_input]

\* what the base tool returns for an input
tool_response(tool_input) == [tool_response_for |-> tool_input]

MODIFICATIONS(user_response) ==
    [text |-> "ACTION CANCELLED - User requested modifications: {user_response}. Implement desired modifications and retry.",
     user_response |-> user_response]
CANCELLED == "ACTION CANCELLED - User cancelled the operation. Abort the execution of operation."
ERROR == "ERROR - Action was not completed due to the internal error."

Suspended(value) == [kind |-> "GraphInterrupt", value |-> value, invoked |-> <<>>]
Returned(value, invoked) == [kind |-> "return", value |-> value, invoked |-> invoked]
Raised(value, invoked) == [kind |-> "raise", value |-> value, invoked |-> invoked]

\* mutant of call_tool_with_interrupt: no `except GraphInterrupt: raise`
\* clause, so the suspension signal is turned into the error string too
call_tool_with_interrupt_catch_all(tool_input, email, resume, llm, tool) ==
    IF resume = <<>> THEN Returned(ERROR, <<>>)
    ELSE IF llm.raises THEN Returned(ERROR, <<>>)
    ELSE LET intent == strip(lower(llm.content))
         IN  IF contains(intent, "proceed")
             THEN LET input == IF email
                               THEN [tool_input EXCEPT !.message = replace_newlines(@)]
                               ELSE tool_input
                  IN  IF tool = "Exception" THEN Returned(ERROR, <<input>>)
                      ELSE Returned(tool_response(input), <<input>>)
             ELSE IF contains(intent, "changes")
             THEN Returned(MODIFICATIONS(resume[1]), <<>>)
             ELSE Returned(CANCELLED, <<>>)

\* mutant of call_tool_with_interrupt: the branches are tested in the other
\* order, 'changes' before 'proceed'
call_tool_with_interrupt_changes_first(tool_input, email, resume, llm, tool) ==
    IF resume = <<>> THEN Suspended(interrupt_value(tool_input))
    ELSE IF llm.raises THEN Returned(ERROR, <<>>)
    ELSE LET intent == strip(lower(llm.content))
         IN  IF contains(intent, "changes")
             THEN Returned(MODIFICATIONS(resume[1]), <<>>)
             ELSE IF contains(intent, "proceed")
             THEN LET input == IF email
                               THEN [tool_input EXCEPT !.message = replace_newlines(@)]
                               ELSE tool_input
                  IN  IF tool = "Exception" THEN Returned(ERROR, <<input>>)
                      ELSE Returned(tool_response(input), <<input>>)
             ELSE Returned(CANCELLED, <<>>)

\* mutant of call_tool_with_interrupt: the newline rewrite is applied
\* whatever the email flag
call_tool_with_interrupt_always_rewrite(tool_input, email, resume, llm, tool) ==
    IF resume = <<>> THEN Suspended(interrupt_value(tool_input))
    ELSE IF llm.raises THEN Returned(ERROR, <<>>)
    ELSE LET intent == strip(lower(llm.content))
         IN  IF contains(intent, "proceed")
             THEN LET input == [tool_input EXCEPT !.message = replace_newlines(@)]
                  IN  IF tool = "Exception" THEN Returned(ERROR, <<input>>)
                      ELSE Returned(tool_response(input), <<input>>)
             ELSE IF contains(intent, "changes")
             THEN Returned(MODIFICATIONS(resume[1]), <<>>)
             ELSE Returned(CANCELLED, <<>>)

\* mutant of call_tool_with_interrupt: only 'cancel' and 'changes' stop the
\* action, any other classifier response lets it through
call_tool_with_interrupt_default_proceed(tool_input, email, resume, llm, tool) ==
    IF resume = <<>> THEN Suspended(interrupt_value(tool_input))
    ELSE IF llm.raises THEN Returned(ERROR, <<>>)
    ELSE LET intent == strip(lower(llm.content))
         IN  IF contains(intent, "cancel") THEN Returned(CANCELLED, <<>>)
             ELSE IF contains(intent, "changes")
             THEN Returned(MODIFICATIONS(resume[1]), <<>>)
             ELSE LET input == IF email
                               THEN [tool_input EXCEPT !.message = replace_newlines(@)]
                               ELSE tool_input
                  IN  IF tool = "Exception" THEN Returned(ERROR, <<input>>)
                      ELSE Returned(tool_response(input), <<input>>)

\* mutant of call_tool_with_interrupt: on proceed the base tool is invoked
\* with the proposed input and, for an email, once more with the rewritten one
call_tool_with_interrupt_invoke_twice(tool_input, email, resume, llm, tool) ==
    IF resume = <<>> THEN Suspended(interrupt_value(tool_input))
    ELSE IF llm.raises THEN Returned(ERROR, <<>>)
    ELSE LET intent == strip(lower(llm.content))
         IN  IF contains(intent, "proceed")
             THEN LET input == [tool_input EXCEPT !.message = replace_newlines(@)]
                      invoked == IF email THEN <<tool_input, input>> ELSE <<tool_input>>
                  IN  IF tool = "Exception" THEN Returned(ERROR, invoked)
                      ELSE Returned(tool_response(input), invoked)
             ELSE IF contains(intent, "changes")
             THEN Returned(MODIFICATIONS(resume[1]), <<>>)
             ELSE Returned(CANCELLED, <<>>)

(***************************************************************************)
(* call_tool_with_interrupt: one execution of the wrapped tool's body.     *)
(* resume is <<>> when the graph holds no resume value for this call       *)
(* (interrupt() raises GraphInterrupt) and <<reply>> when it does          *)
(* (interrupt() returns the reply).  The outcome tells how the body ended  *)
(* and which inputs the base tool was invoked with on the way.             *)
(***************************************************************************)
call_tool_with_interrupt(tool_input, email, resume, llm, tool) ==
    IF resume = <<>> THEN Suspended(interrupt_value(tool_input))
    ELSE IF llm.raises THEN Returned(ERROR, <<>>)
    ELSE LET intent == strip(lower(llm.content))
         IN  IF contains(intent, "proceed")
             THEN LET input == IF email
                               THEN [tool_input EXCEPT !.message = replace_newlines(@)]
                               ELSE tool_input
                  IN  IF tool = "Exception" THEN Returned(ERROR, <<input>>)
                      ELSE Returned(tool_response(input), <<input>>)
             ELSE IF contains(intent, "changes")
             THEN Returned(MODIFICATIONS(resume[1]), <<>>)
             ELSE Returned(CANCELLED, <<>>)

(***************************************************************************)
(* SpecTool: the tool node executes a wrapped call, which suspends; the    *)
(* graph is resumed with the human reply and executes the call again.      *)
(***************************************************************************)
ToolInit ==
    /\ tInput \in ToolInputs
    /\ tEmail \in BOOLEAN
    /\ tReply \in Replies
    /\ tLlm \in LlmOutcomes
    /\ tTool \in ToolOutcomes
    /\ tPhase = "new"
    /\ tOutcome = Returned("None", <<>>)
    /\ tInvoked = <<>>
    /\ tCalls = 0

\* first execution: no resume value yet
ToolFirstCall ==
    /\ tPhase = "new"
    /\ LET r == call_tool_with_interrupt(tInput, tEmail, <<>>, tLlm, tTool)
       IN  /\ tOutcome' = r
           /\ tInvoked' = tInvoked \o r.invoked
           /\ tPhase' = IF r.kind = "GraphInterrupt" THEN "suspended" ELSE "finished"
    /\ tCalls' = tCalls + 1
    /\ UNCHANGED <<tInput, tEmail, tReply, tLlm, tTool, notTool>>

\* execution after Command(resume=tReply)
ToolResumeCall ==
    /\ tPhase = "suspended"
    /\ LET r == call_tool_with_interrupt(tInput, tEmail, <<tReply>>, tLlm, tTool)
       IN  /\ tOutcome' = r
           /\ tInvoked' = tInvoked \o r.invoked
           /\ tPhase' = IF r.kind = "GraphInterrupt" THEN "suspended" ELSE "finished"
    /\ tCalls' = tCalls + 1
    /\ UNCHANGED <<tInput, tEmail, tReply, tLlm, tTool, notTool>>

ToolNext == ToolFirstCall \/ ToolResumeCall

(***************************************************************************)
(* SupervisorSystemManager.build (system_manager.py:22-43) and             *)
(* safe_create_agent (utils.py:30-39).  An exception is a record of its    *)
(* class and of str(e).  A sub-agent manager's create_agent() returns the  *)
(* agent or raises AgentInternalError: each of the three wraps whatever    *)
(* goes wrong into that class.                                             *)
(***************************************************************************)
Exc(class, msg) == [class |-> class, msg |-> msg]

Managers == <<"email_agent", "calendar_agent", "legal_docs_app_agent">>
CreateOutcomes == {"ok", "AgentInternalError"}

\* building the supervisor: the SupervisorAgentManager constructor runs
\* outside any try and may raise what init_chat_model or SummarizationNode
\* raise; its create_agent() wraps every failure
SupOutcomes == {"ok", "constructor raises", "create_agent raises"}
ProviderText == "API key not valid. Please pass a valid API key."

handoff_tool(agent_name) == [handoff_to |-> agent_name]

\* how far a call has come: not over, returned None, or raised e
Running == [done |-> FALSE, exc |-> <<>>]
ReturnedNone == [done |-> TRUE, exc |-> <<>>]
RaisedExc(e) == [done |-> TRUE, exc |-> <<e>>]

BuildState(agents, tools, info) ==
    [built_agents |-> agents, built_handoff_tools |-> tools, build_info |-> info]

setitem(d, k, v) == [x \in DOMAIN d \cup {k} |-> IF x = k THEN v ELSE d[x]]

\* mutant of safe_create_agent: the handoff tool is appended before the agent
\* is created, so a failed agent's tool stays in the list
safe_create_agent_tool_first(agent_name, outcome, st) ==
    IF outcome = "ok"
    THEN BuildState(Append(st.built_agents, agent_name),
                    Append(st.built_handoff_tools, handoff_tool(agent_name)),
                    setitem(st.build_info, agent_name, TRUE))
    ELSE BuildState(st.built_agents,
                    Append(st.built_handoff_tools, handoff_tool(agent_name)),
                    setitem(st.build_info, agent_name, FALSE))

safe_create_agent(agent_name, outcome, st) ==
    IF outcome = "ok"
    THEN BuildState(Append(st.built_agents, agent_name),
                    Append(st.built_handoff_tools, handoff_tool(agent_name)),
                    setitem(st.build_info, agent_name, TRUE))
    ELSE BuildState(st.built_agents, st.built_handoff_tools,
                    setitem(st.build_info, agent_name, FALSE))

\* mutant of build_supervisor: no `if not built_agents` check
build_supervisor_unchecked(agents, tools, sup) ==
    IF sup = "constructor raises"
    THEN [manager |-> <<>>, agent |-> <<>>, result |-> RaisedExc(Exc("Exception", ProviderText))]
    ELSE IF sup = "create_agent raises"
    THEN [manager |-> <<[agents |-> agents, handoff_tools |-> tools]>>, agent |-> <<>>,
          result |-> RaisedExc(Exc("AgentInternalError", "Failed to create supervisor agent"))]
    ELSE [manager |-> <<[agents |-> agents, handoff_tools |-> tools]>>,
          agent |-> <<[agents |-> agents, handoff_tools |-> tools]>>,
          result |-> ReturnedNone]

\* build(), lines 35-43: what follows the loop over the managers
build_supervisor(agents, tools, sup) ==
    IF agents = <<>>
    THEN [manager |-> <<>>, agent |-> <<>>,
          result |-> RaisedExc(Exc("AgentInternalError",
                         "Failed to build any agents - cannot create supervisor system"))]
    ELSE IF sup = "constructor raises"
    THEN [manager |-> <<>>, agent |-> <<>>, result |-> RaisedExc(Exc("Exception", ProviderText))]
    ELSE IF sup = "create_agent raises"
    THEN [manager |-> <<[agents |-> agents, handoff_tools |-> tools]>>, agent |-> <<>>,
          result |-> RaisedExc(Exc("AgentInternalError", "Failed to create supervisor agent"))]
    ELSE [manager |-> <<[agents |-> agents, handoff_tools |-> tools]>>,
          agent |-> <<[agents |-> agents, handoff_tools |-> tools]>>,
          result |-> ReturnedNone]

\* websocket_endpoint, lines 129-135, and send_error_message on a connected
\* transport: the frames an exception leaving the try block gives rise to
endpoint_error_frames(e) ==
    IF e.class = "WebSocketDisconnect" THEN <<>>
    ELSE IF e.class \in {"AgentInternalError", "OAuthError", "DatabaseError"}
    THEN <<[tag |-> "Error", content |-> e.msg]>>
    ELSE <<[tag |-> "Error", content |-> e.msg]>>

BuildInit ==
    /\ bCreate \in [1..Len(Managers) -> CreateOutcomes]
    /\ bSup \in SupOutcomes
    /\ bPos = 0
    /\ bAttempted = <<>>
    /\ built_agents = <<>>
    /\ built_handoff_tools = <<>>
    /\ build_info = <<>>
    /\ bSupMgr = <<>>
    /\ _supervisor_agent = <<>>
    /\ bResult = Running
    /\ bEndpoint = "setup"
    /\ bFrames = <<>>

\* one iteration of `for manager in managers`
BuildAgent ==
    /\ bResult = Running /\ bPos < Len(Managers)
    /\ LET st == safe_create_agent(Managers[bPos + 1], bCreate[bPos + 1],
                     BuildState(built_agents, built_handoff_tools, build_info))
       IN  /\ built_agents' = st.built_agents
           /\ built_handoff_tools' = st.built_handoff_tools
           /\ build_info' = st.build_info
    /\ bAttempted' = Append(bAttempted, Managers[bPos + 1])
    /\ bPos' = bPos + 1
    /\ UNCHANGED <<bCreate, bSup, bSupMgr, _supervisor_agent, bResult, bEndpoint, bFrames>>
    /\ UNCHANGED notBuild

\* the rest of build()
BuildSupervisor ==
    /\ bResult = Running /\ bPos = Len(Managers)
    /\ LET r == build_supervisor(built_agents, built_handoff_tools, bSup)
       IN  /\ bSupMgr' = r.manager
           /\ _supervisor_agent' = r.agent
           /\ bResult' = r.result
    /\ UNCHANGED <<bCreate, bSup, bPos, bAttempted, built_agents, built_handoff_tools,
                   build_info, bEndpoint, bFrames>>
    /\ UNCHANGED notBuild

\* build() returned: the endpoint enters chat()
BuildThenChat ==
    /\ bEndpoint = "setup" /\ bResult = ReturnedNone
    /\ bEndpoint' = "chat"
    /\ UNCHANGED <<bCreate, bSup, bPos, bAttempted, built_agents, built_handoff_tools,
                   build_info, bSupMgr, _supervisor_agent, bResult, bFrames>>
    /\ UNCHANGED notBuild

\* build() raised: the endpoint reports and closes, chat() is never entered
BuildThenError ==
    /\ bEndpoint = "setup" /\ bResult.exc # <<>>
    /\ bFrames' = bFrames \o endpoint_error_frames(bResult.exc[1])
    /\ bEndpoint' = "closed"
    /\ UNCHANGED <<bCreate, bSup, bPos, bAttempted, built_agents, built_handoff_tools,
                   build_info, bSupMgr, _supervisor_agent, bResult>>
    /\ UNCHANGED notBuild

BuildNext == BuildAgent \/ BuildSupervisor \/ BuildThenChat \/ BuildThenError

(***************************************************************************)
(* get_checkpointer / close_checkpointer (database.py).  The only await of *)
(* get_checkpointer is `await _checkpointer.setup()`: a call runs from its *)
(* entry to that await (or to its return or raise) in one step, and from   *)
(* the end of setup() to its return or raise in another; other calls may   *)
(* run in between.                                                         *)
(***************************************************************************)
CheckpointerError == Exc("CheckpointerError", "Error while getting the database connection")

\* what may go wrong before the await: nothing, AsyncConnectionPool(...)
\* raising, AsyncPostgresSaver(...) raising
EnterFaults == {"none", "pool", "saver"}

\* mutant of get_checkpointer_enter: the except clause resets both globals
get_checkpointer_enter_resets(pool, cp, fault, new_pool, new_cp) ==
    IF cp # 0
    THEN [pool |-> pool, cp |-> cp, pc |-> "returned", result |-> cp, exc |-> <<>>,
          pools |-> 0, savers |-> 0, setups |-> 0]
    ELSE IF pool = 0 /\ fault = "pool"
    THEN [pool |-> 0, cp |-> 0, pc |-> "raised", result |-> 0,
          exc |-> <<CheckpointerError>>, pools |-> 0, savers |-> 0, setups |-> 0]
    ELSE LET p == IF pool = 0 THEN new_pool ELSE pool
             made == IF pool = 0 THEN 1 ELSE 0
         IN  IF fault = "saver"
             THEN [pool |-> 0, cp |-> 0, pc |-> "raised", result |-> 0,
                   exc |-> <<CheckpointerError>>, pools |-> made, savers |-> 0,
                   setups |-> 0]
             ELSE [pool |-> p, cp |-> new_cp, pc |-> "setup", result |-> 0,
                   exc |-> <<>>, pools |-> made, savers |-> 1, setups |-> 1]

\* mutant of get_checkpointer_enter: the store handle is built whenever the
\* call gets past the pool, without the `_checkpointer is None` test
get_checkpointer_enter_no_reuse(pool, cp, fault, new_pool, new_cp) ==
    IF pool = 0 /\ fault = "pool"
    THEN [pool |-> pool, cp |-> cp, pc |-> "raised", result |-> 0,
          exc |-> <<CheckpointerError>>, pools |-> 0, savers |-> 0, setups |-> 0]
    ELSE LET p == IF pool = 0 THEN new_pool ELSE pool
             made == IF pool = 0 THEN 1 ELSE 0
         IN  IF fault = "saver"
             THEN [pool |-> p, cp |-> cp, pc |-> "raised", result |-> 0,
                   exc |-> <<CheckpointerError>>, pools |-> made, savers |-> 0,
                   setups |-> 0]
             ELSE [pool |-> p, cp |-> new_cp, pc |-> "setup", result |-> 0,
                   exc |-> <<>>, pools |-> made, savers |-> 1, setups |-> 1]

\* get_checkpointer, lines 17-31, up to the await: the globals after it,
\* where the call stands, and what it constructed on the way
get_checkpointer_enter(pool, cp, fault, new_pool, new_cp) ==
    IF cp # 0
    THEN [pool |-> pool, cp |-> cp, pc |-> "returned", result |-> cp, exc |-> <<>>,
          pools |-> 0, savers |-> 0, setups |-> 0]
    ELSE IF pool = 0 /\ fault = "pool"
    THEN [pool |-> pool, cp |-> cp, pc |-> "raised", result |-> 0,
          exc |-> <<CheckpointerError>>, pools |-> 0, savers |-> 0, setups |-> 0]
    ELSE LET p == IF pool = 0 THEN new_pool ELSE pool
             made == IF pool = 0 THEN 1 ELSE 0
         IN  IF fault = "saver"
             THEN [pool |-> p, cp |-> cp, pc |-> "raised", result |-> 0,
                   exc |-> <<CheckpointerError>>, pools |-> made, savers |-> 0,
                   setups |-> 0]
             ELSE [pool |-> p, cp |-> new_cp, pc |-> "setup", result |-> 0,
                   exc |-> <<>>, pools |-> made, savers |-> 1, setups |-> 1]

\* get_checkpointer, lines 31-38, after the await: setup() returned or raised
get_checkpointer_leave(cp, setup_raises) ==
    IF setup_raises
    THEN [pc |-> "raised", result |-> 0, exc |-> <<CheckpointerError>>]
    ELSE [pc |-> "returned", result |-> cp, exc |-> <<>>]

\* mutant of close_checkpointer: no try/except around the close
close_checkpointer_unguarded(pool, close_raises) ==
    IF pool # 0
    THEN [closed |-> <<pool>>,
          result |-> IF close_raises THEN RaisedExc(Exc("Exception", "Close error"))
                     ELSE ReturnedNone]
    ELSE [closed |-> <<>>, result |-> ReturnedNone]

\* close_checkpointer, lines 41-51: the pool whose close() was awaited, if
\* any, and how the call ended
close_checkpointer(pool, close_raises) ==
    IF pool # 0
    THEN [closed |-> <<pool>>, result |-> ReturnedNone]
    ELSE [closed |-> <<>>, result |-> ReturnedNone]

CkptInit ==
    /\ _connection_pool = 0
    /\ _checkpointer = 0
    /\ kCall = <<>>
    /\ kPools = 0
    /\ kSavers = 0
    /\ kSetups = 0
    /\ kClose = <<>>

\* a caller enters get_checkpointer and runs to the await, a return or a raise
GetEnter ==
    /\ Len(kCall) < MaxCalls
    /\ \E fault \in EnterFaults :
          LET r == get_checkpointer_enter(_connection_pool, _checkpointer, fault,
                                          kPools + 1, kSavers + 1)
          IN  /\ _connection_pool' = r.pool
              /\ _checkpointer' = r.cp
              /\ kPools' = kPools + r.pools
              /\ kSavers' = kSavers + r.savers
              /\ kSetups' = kSetups + r.setups
              /\ kCall' = Append(kCall,
                     [pc |-> r.pc, result |-> r.result, exc |-> r.exc,
                      entry |-> [pool |-> _connection_pool, cp |-> _checkpointer],
                      fault |-> IF r.exc # <<>> THEN fault ELSE "none",
                      handle |-> IF r.pc = "setup" THEN r.cp ELSE 0,
                      after |-> [pool |-> r.pool, cp |-> r.cp],
                      pools |-> r.pools, savers |-> r.savers, setups |-> r.setups])
    /\ UNCHANGED kClose
    /\ UNCHANGED notCkpt

\* the setup() a call awaits ends: the call returns the global or raises
GetLeave ==
    /\ \E i \in 1..Len(kCall), setup_raises \in BOOLEAN :
          /\ kCall[i].pc = "setup"
          /\ LET r == get_checkpointer_leave(_checkpointer, setup_raises)
             IN  kCall' = [kCall EXCEPT ![i] =
                     [@ EXCEPT !.pc = r.pc, !.result = r.result, !.exc = r.exc,
                               !.fault = IF setup_raises THEN "setup" ELSE "none",
                               !.after = [pool |-> _connection_pool,
                                          cp |-> _checkpointer]]]
    /\ UNCHANGED <<_connection_pool, _checkpointer, kPools, kSavers, kSetups, kClose>>
    /\ UNCHANGED notCkpt

\* a close_checkpointer call
Close ==
    /\ Len(kClose) < MaxClose
    /\ \E close_raises \in BOOLEAN :
          LET r == close_checkpointer(_connection_pool, close_raises)
          IN  kClose' = Append(kClose,
                  [pool |-> _connection_pool, closed |-> r.closed,
                   raises |-> close_raises /\ r.closed # <<>>, result |-> r.result])
    /\ UNCHANGED <<_connection_pool, _checkpointer, kCall, kPools, kSavers, kSetups>>
    /\ UNCHANGED notCkpt

CkptNext == GetEnter \/ GetLeave \/ Close

(***************************************************************************)
(* SpecNorm: a mocked astream yields nRaw; stream_agent_events iterates    *)
(* it, then resume_agent_after_interrupt iterates the same sequence.       *)
(***************************************************************************)
NormInit ==
    /\ nRaw \in SeqsUpTo(RawEvents, MaxRaw)
    /\ nOp = "stream"
    /\ nPos = 0
    /\ nOut = <<>>
    /\ nHalt = FALSE
    /\ nLast = <<>>
    /\ nOutS = <<>>
    /\ nPosS = 0

\* stream_agent_events takes the next raw event
StreamConsume ==
    /\ nOp = "stream" /\ ~nHalt /\ nPos < Len(nRaw)
    /\ LET r == stream_agent_events(nRaw[nPos + 1])
       IN  /\ nOut' = nOut \o r.out
           /\ nLast' = r.out
           /\ nHalt' = r.halt
    /\ nPos' = nPos + 1
    /\ UNCHANGED <<nRaw, nOp, nOutS, nPosS, notNorm>>

\* stream_agent_events is over (returned, or astream is exhausted)
StreamReturn ==
    /\ nOp = "stream" /\ (nHalt \/ nPos = Len(nRaw))
    /\ nOutS' = nOut
    /\ nPosS' = nPos
    /\ nOp' = "resume"
    /\ nPos' = 0
    /\ nOut' = <<>>
    /\ nHalt' = FALSE
    /\ nLast' = <<>>
    /\ UNCHANGED <<nRaw, notNorm>>

\* resume_agent_after_interrupt takes the next raw event
ResumeConsume ==
    /\ nOp = "resume" /\ ~nHalt /\ nPos < Len(nRaw)
    /\ LET r == resume_agent_after_interrupt(nRaw[nPos + 1])
       IN  /\ nOut' = nOut \o r.out
           /\ nLast' = r.out
           /\ nHalt' = r.halt
    /\ nPos' = nPos + 1
    /\ UNCHANGED <<nRaw, nOp, nOutS, nPosS, notNorm>>

\* resume_agent_after_interrupt is over
ResumeReturn ==
    /\ nOp = "resume" /\ (nHalt \/ nPos = Len(nRaw))
    /\ nOp' = "done"
    /\ UNCHANGED <<nRaw, nPos, nOut, nHalt, nLast, nOutS, nPosS, notNorm>>

NormNext == StreamConsume \/ StreamReturn \/ ResumeConsume \/ ResumeReturn

(***************************************************************************)
(* The WebSocket chat loop (ai_chat_ws.py, chat) over the user's thread.   *)
(* The compiled graph is the environment: a run yields node events, may    *)
(* reach the email agent's gated send tool (the wrapper then suspends the  *)
(* run and the thread keeps the call), may end, may raise.  A run started  *)
(* with Command(resume=reply) on a thread that keeps a suspended call      *)
(* executes that call again, interrupt() now returning the reply; a run    *)
(* started with a fresh message leaves the suspended call behind.          *)
(***************************************************************************)
ClientFrame(text, len) == [text |-> text, len |-> len]
NoFrame == ClientFrame("", 0)
ClientFrames ==
    { ClientFrame("send it", 7),
      ClientFrame("x * 40000", MAX_MESSAGE_LENGTH),
      ClientFrame("x * 40001", MAX_MESSAGE_LENGTH + 1) }

\* an outbound text frame f"{tag}: {content}\n"
Frame(tag, content) == [tag |-> tag, content |-> content]

\* what the graph of a session is let to do
SessionEvents ==
    { Raw(<<>>, <<Node("supervisor", Last(AIStop))>>),
      Raw(<<>>, <<Node("email_agent", Last(AIHi))>>),
      Raw(<<>>, <<Node("supervisor", Last(HumanMsg))>>),
      Raw(<<>>, <<Node("email_agent", Last(AIHi)), Node("supervisor", Last(AIStop))>>) }
GatedInputs ==
    { [message |-> m, to |-> "client@example.com", subject |-> "Contract"] :
        m \in {<<"a">>, <<"a", "\n">>} }
SessionLlm ==
    { [raises |-> TRUE, content |-> <<>>] }
    \cup { [raises |-> FALSE, content |-> c] :
             c \in {<<"proceed">>, <<"changes">>, <<"cancel">>, <<>>} }

NoCall == [op |-> "none", payload |-> "", after |-> "none", outstanding |-> 0]
NoHitl == [input |-> <<>>, raised |-> <<>>, reply |-> <<>>, llm |-> <<>>,
           invoked |-> <<>>, result |-> <<>>]
NoTurn == [llm |-> <<>>, invocations |-> 0]

\* what the endpoint's setup can raise before chat() is entered: auth_google
\* (every failure wrapped by google_auth_validation) and build()
SetupExceptions ==
    { Exc("OAuthError", "User must authenticate with google"),
      Exc("OAuthError", "Authentication failed. Please try again."),
      Exc("DatabaseError", "Database server is unavailable. Please try again later.") }
    \cup { r.result.exc[1] :
             r \in { x \in { build_supervisor(a, [j \in 1..Len(a) |-> handoff_tool(a[j])], sup) :
                               a \in {<<>>, <<"email_agent">>}, sup \in SupOutcomes } :
                       x.result.exc # <<>> } }

\* what astream can raise while a run is started or iterated
AstreamExceptions ==
    { Exc("Exception", ProviderText),
      Exc("GraphRecursionError", "Recursion limit of 25 reached without hitting a stop condition.") }

\* mutant of stream_agent_events_except: no except clause, the exception
\* leaves the generator as it is
stream_agent_events_except_absent(e) == e

\* stream_agent_events, lines 117-119
stream_agent_events_except(e) ==
    Exc("AgentInternalError", "Failed to stream agent events")

\* resume_agent_after_interrupt, lines 158-160
resume_agent_after_interrupt_except(e) ==
    Exc("AgentInternalError", "Failed to resume agent after interrupt")

\* mutant of endpoint_close_code: a normal closure
endpoint_close_code_normal(e) ==
    IF e.class = "WebSocketDisconnect" THEN 0 ELSE 1000

\* send_error_message, line 98: the close code sent after the error frame
endpoint_close_code(e) ==
    IF e.class = "WebSocketDisconnect" THEN 0 ELSE WS_1011_INTERNAL_ERROR

\* mutant of chat_reject: the rejection also drops the interrupt flag
chat_reject_clears_mode(mode) ==
    [frames |-> <<Frame("Error", "Message too long. Maximum 40000 characters allowed.")>>,
     interrupt_mode |-> FALSE]

\* chat(), lines 57-60: the answer to a frame over the limit
chat_reject(mode) ==
    [frames |-> <<Frame("Error", "Message too long. Maximum 40000 characters allowed.")>>,
     interrupt_mode |-> mode]

\* mutant of chat_dispatch: `interrupt_mode = False` after the resume call
\* is missing
chat_dispatch_keeps_mode(mode) ==
    IF mode THEN [op |-> "resume", interrupt_mode |-> mode]
    ELSE [op |-> "stream", interrupt_mode |-> mode]

\* chat(), lines 64-69: which generator the turn iterates, and the flag after
chat_dispatch(mode) ==
    IF mode THEN [op |-> "resume", interrupt_mode |-> FALSE]
    ELSE [op |-> "stream", interrupt_mode |-> mode]

\* the events chat() takes from the generator before its loop breaks
RECURSIVE chat_consumed(_, _)
chat_consumed(evs, i) ==
    IF i > Len(evs) THEN <<>>
    ELSE IF evs[i].type \in {"interrupt", "complete"} THEN <<evs[i]>>
    ELSE <<evs[i]>> \o chat_consumed(evs, i + 1)

\* mutant of chat_events: no branch for message events
RECURSIVE chat_events_drops_messages(_, _, _)
chat_events_drops_messages(evs, i, mode) ==
    IF i > Len(evs) THEN [frames |-> <<>>, interrupt_mode |-> mode, broke |-> "no"]
    ELSE LET event == evs[i]
         IN  IF event.type = "interrupt"
             THEN [frames |-> <<Frame("Agent [INTERRUPT]", event.content)>>,
                   interrupt_mode |-> TRUE, broke |-> "interrupt"]
             ELSE IF event.type = "complete"
             THEN [frames |-> <<Frame("Agent", event.content)>>,
                   interrupt_mode |-> FALSE, broke |-> "complete"]
             ELSE chat_events_drops_messages(evs, i + 1, mode)

\* mutant of chat_events: the loop also breaks after a message event
RECURSIVE chat_events_break_on_message(_, _, _)
chat_events_break_on_message(events, i, mode) ==
    IF i > Len(events) THEN [frames |-> <<>>, interrupt_mode |-> mode, broke |-> "no"]
    ELSE LET event == events[i]
         IN  IF event.type = "interrupt"
             THEN [frames |-> <<Frame("Agent [INTERRUPT]", event.content)>>,
                   interrupt_mode |-> TRUE, broke |-> "interrupt"]
             ELSE IF event.type = "complete"
             THEN [frames |-> <<Frame("Agent", event.content)>>,
                   interrupt_mode |-> FALSE, broke |-> "complete"]
             ELSE [frames |-> <<Frame("Agent [UPDATE]", event.content)>>,
                   interrupt_mode |-> mode, broke |-> "message"]

\* chat(), lines 71-90: the body of `async for event in event_stream` run
\* over the events one raw event gave rise to, up to the first break
RECURSIVE chat_events(_, _, _)
chat_events(events, i, mode) ==
    IF i > Len(events) THEN [frames |-> <<>>, interrupt_mode |-> mode, broke |-> "no"]
    ELSE LET event == events[i]
         IN  IF event.type = "interrupt"
             THEN [frames |-> <<Frame("Agent [INTERRUPT]", event.content)>>,
                   interrupt_mode |-> TRUE, broke |-> "interrupt"]
             ELSE IF event.type = "complete"
             THEN [frames |-> <<Frame("Agent", event.content)>>,
                   interrupt_mode |-> FALSE, broke |-> "complete"]
             ELSE LET rest == chat_events(events, i + 1, mode)
                  IN  IF event.type = "message"
                      THEN [frames |-> <<Frame("Agent [UPDATE]", event.content)>>
                                       \o rest.frames,
                            interrupt_mode |-> rest.interrupt_mode,
                            broke |-> rest.broke]
                      ELSE rest

SessInit ==
    /\ pc = "receive"
    /\ interrupt_mode = FALSE
    /\ data = NoFrame
    /\ op = "none"
    /\ frames = <<>>
    /\ gInput = [kind |-> "none", value |-> ""]
    /\ gStarted = FALSE
    /\ gCount = 0
    /\ gPending = <<>>
    /\ nFrames = 0
    /\ prevEnd = "none"
    /\ prevFrames = <<>>
    /\ outstanding = 0
    /\ call = NoCall
    /\ hitl = NoHitl
    /\ sendLog = {}
    /\ turn = NoTurn
    /\ evSeen = <<>>
    /\ gExc = <<>>
    /\ err = <<>>
    /\ closeCode = 0

\* receive_text() gives a frame over the length limit: one error frame, continue
ReceiveTooLong ==
    /\ pc = "receive" /\ nFrames < MaxFrames
    /\ \E f \in ClientFrames :
          /\ f.len > MAX_MESSAGE_LENGTH
          /\ data' = f
          /\ frames' = frames \o chat_reject(interrupt_mode).frames
          /\ interrupt_mode' = chat_reject(interrupt_mode).interrupt_mode
    /\ nFrames' = nFrames + 1
    /\ UNCHANGED <<pc, op, gInput, gStarted, gCount, gPending,
                   prevEnd, prevFrames, outstanding, call, hitl, sendLog, turn,
                   evSeen, gExc, err, closeCode>>
    /\ UNCHANGED notSess

\* receive_text() gives an acceptable frame: echo, pick the generator
ReceiveTurn ==
    /\ pc = "receive" /\ nFrames < MaxFrames
    /\ \E f \in ClientFrames :
          /\ ~(f.len > MAX_MESSAGE_LENGTH)
          /\ LET d == chat_dispatch(interrupt_mode)
             IN  /\ data' = f
                 /\ frames' = <<Frame("User", f.text)>>
                 /\ op' = d.op
                 /\ interrupt_mode' = d.interrupt_mode
                 /\ gInput' = [kind |-> IF d.op = "resume" THEN "resume" ELSE "message",
                               value |-> f.text]
                 /\ call' = [op |-> d.op, payload |-> f.text, after |-> prevEnd,
                             outstanding |-> outstanding]
                 /\ outstanding' = IF d.op = "resume" THEN outstanding - 1 ELSE outstanding
    /\ prevFrames' = frames
    /\ pc' = "stream"
    /\ gStarted' = FALSE
    /\ gCount' = 0
    /\ turn' = NoTurn
    /\ evSeen' = <<>>
    /\ nFrames' = nFrames + 1
    /\ UNCHANGED <<gPending, prevEnd, hitl, sendLog, gExc, err, closeCode>>
    /\ UNCHANGED notSess

\* the first step of the astream run the generator starts
GraphStart ==
    /\ pc = "stream" /\ ~gStarted
    /\ gStarted' = TRUE
    /\ IF gInput.kind = "resume" /\ gPending # <<>>
       THEN \E llm \in SessionLlm, tool \in ToolOutcomes :
               LET r == call_tool_with_interrupt(gPending[1], TRUE, <<gInput.value>>, llm, tool)
               IN  /\ hitl' = [hitl EXCEPT !.reply = <<gInput.value>>, !.llm = <<llm>>,
                                           !.invoked = @ \o r.invoked,
                                           !.result = <<r.value>>]
                   /\ sendLog' = sendLog \cup
                         { [input |-> r.invoked[k], proposed |-> hitl.input,
                            raised |-> hitl.raised, reply |-> <<gInput.value>>,
                            llm |-> <<llm>>] : k \in 1..Len(r.invoked) }
                   /\ turn' = [llm |-> <<llm>>,
                               invocations |-> Len(hitl.invoked) + Len(r.invoked)]
                   /\ gPending' = IF r.kind = "GraphInterrupt" THEN gPending ELSE <<>>
       ELSE /\ gPending' = <<>>
            /\ UNCHANGED <<hitl, sendLog, turn>>
    /\ UNCHANGED <<pc, interrupt_mode, data, op, frames, gInput, gCount, nFrames,
                   prevEnd, prevFrames, outstanding, call, evSeen, gExc, err,
                   closeCode>>
    /\ UNCHANGED notSess

\* one raw event goes through the generator and the chat loop's body
Deliver(e) ==
    LET r == IF op = "resume" THEN resume_agent_after_interrupt(e)
             ELSE stream_agent_events(e)
        c == chat_events(r.out, 1, interrupt_mode)
    IN  /\ frames' = frames \o c.frames
        /\ evSeen' = evSeen \o chat_consumed(r.out, 1)
        /\ interrupt_mode' = c.interrupt_mode
        /\ gCount' = gCount + 1
        /\ outstanding' = IF c.broke = "interrupt" THEN outstanding + 1 ELSE outstanding
        /\ pc' = IF c.broke # "no" \/ r.halt THEN "receive" ELSE "stream"
        /\ prevEnd' = IF c.broke # "no" THEN c.broke
                      ELSE IF r.halt THEN "exhausted" ELSE prevEnd

\* the run yields a node event
GraphEmit ==
    /\ pc = "stream" /\ gStarted /\ gCount < MaxRun
    /\ \E e \in SessionEvents : Deliver(e)
    /\ UNCHANGED <<data, op, gInput, gStarted, gPending, nFrames, prevFrames,
                   call, hitl, sendLog, turn, gExc, err, closeCode>>
    /\ UNCHANGED notSess

\* the email agent calls the gated send tool
GraphGatedCall ==
    /\ pc = "stream" /\ gStarted /\ gCount < MaxRun /\ gPending = <<>>
    /\ \E ti \in GatedInputs, llm \in SessionLlm, tool \in ToolOutcomes :
          LET r == call_tool_with_interrupt(ti, TRUE, <<>>, llm, tool)
          IN  IF r.kind = "GraphInterrupt"
              THEN /\ gPending' = <<ti>>
                   /\ hitl' = [NoHitl EXCEPT !.input = <<ti>>, !.raised = <<r.value>>,
                                             !.invoked = r.invoked]
                   /\ sendLog' = sendLog \cup
                         { [input |-> r.invoked[k], proposed |-> <<ti>>,
                            raised |-> <<>>, reply |-> <<>>, llm |-> <<>>] :
                             k \in 1..Len(r.invoked) }
                   /\ Deliver(Raw(<<r.value>>, <<>>))
                   /\ UNCHANGED turn
              ELSE /\ hitl' = [NoHitl EXCEPT !.input = <<ti>>, !.invoked = r.invoked,
                                             !.result = <<r.value>>]
                   /\ sendLog' = sendLog \cup
                         { [input |-> r.invoked[k], proposed |-> <<ti>>,
                            raised |-> <<>>, reply |-> <<>>, llm |-> <<>>] :
                             k \in 1..Len(r.invoked) }
                   /\ turn' = [turn EXCEPT !.invocations = @ + Len(r.invoked)]
                   /\ gCount' = gCount + 1
                   /\ UNCHANGED <<gPending, frames, interrupt_mode, outstanding,
                                  pc, prevEnd, evSeen>>
    /\ UNCHANGED <<data, op, gInput, gStarted, nFrames, prevFrames, call, gExc, err,
                   closeCode>>
    /\ UNCHANGED notSess

\* the run ends: the generator is exhausted and the chat loop's for ends
GraphExhausted ==
    /\ pc = "stream" /\ gStarted
    /\ pc' = "receive"
    /\ prevEnd' = "exhausted"
    /\ UNCHANGED <<interrupt_mode, data, op, frames, gInput, gStarted, gCount,
                   gPending, nFrames, prevFrames, outstanding, call, hitl,
                   sendLog, turn, evSeen, gExc, err, closeCode>>
    /\ UNCHANGED notSess

\* astream raises: AgentInternalError leaves chat(), the endpoint reports it
\* and closes
GraphRaise ==
    /\ pc = "stream"
    /\ \E e \in AstreamExceptions :
          LET w == IF op = "resume" THEN resume_agent_after_interrupt_except(e)
                   ELSE stream_agent_events_except(e)
          IN  /\ gExc' = <<e>>
              /\ err' = <<w>>
              /\ frames' = frames \o endpoint_error_frames(w)
              /\ closeCode' = endpoint_close_code(w)
    /\ pc' = "closed"
    /\ prevEnd' = "error"
    /\ UNCHANGED <<interrupt_mode, data, op, gInput, gStarted, gCount, gPending,
                   nFrames, prevFrames, outstanding, call, hitl, sendLog, turn,
                   evSeen>>
    /\ UNCHANGED notSess

\* receive_text() raises WebSocketDisconnect
Disconnect ==
    /\ pc = "receive"
    /\ pc' = "closed"
    /\ LET e == Exc("WebSocketDisconnect", "")
       IN  /\ err' = <<e>>
           /\ frames' = frames \o endpoint_error_frames(e)
           /\ closeCode' = endpoint_close_code(e)
    /\ UNCHANGED <<interrupt_mode, data, op, gInput, gStarted, gCount,
                   gPending, nFrames, prevEnd, prevFrames, outstanding, call,
                   hitl, sendLog, turn, evSeen, gExc>>
    /\ UNCHANGED notSess

\* the user connects again: a new chat() over the same thread_id
Reconnect ==
    /\ pc = "closed"
    /\ pc' = "receive"
    /\ interrupt_mode' = FALSE
    /\ data' = NoFrame
    /\ op' = "none"
    /\ frames' = <<>>
    /\ gInput' = [kind |-> "none", value |-> ""]
    /\ gStarted' = FALSE
    /\ gCount' = 0
    /\ prevEnd' = "none"
    /\ prevFrames' = <<>>
    /\ outstanding' = 0
    /\ call' = NoCall
    /\ turn' = NoTurn
    /\ evSeen' = <<>>
    /\ gExc' = <<>>
    /\ err' = <<>>
    /\ closeCode' = 0
    /\ UNCHANGED <<gPending, nFrames, hitl, sendLog>>
    /\ UNCHANGED notSess

\* the user connects again and the endpoint's setup (auth_google, build())
\* raises: the handlers report and close, chat() is not entered
ConnectFail ==
    /\ pc = "closed"
    /\ \E e \in SetupExceptions :
          /\ err' = <<e>>
          /\ frames' = endpoint_error_frames(e)
          /\ closeCode' = endpoint_close_code(e)
    /\ pc' = "closed"
    /\ interrupt_mode' = FALSE
    /\ data' = NoFrame
    /\ op' = "none"
    /\ gInput' = [kind |-> "none", value |-> ""]
    /\ gStarted' = FALSE
    /\ gCount' = 0
    /\ prevEnd' = "none"
    /\ prevFrames' = <<>>
    /\ outstanding' = 0
    /\ call' = NoCall
    /\ turn' = NoTurn
    /\ evSeen' = <<>>
    /\ gExc' = <<>>
    /\ UNCHANGED <<gPending, nFrames, hitl, sendLog>>
    /\ UNCHANGED notSess

\* the user connects again without a valid token: get_websocket_user raises
\* WebSocketException(1008) and the endpoint's body does not run
ConnectRejected ==
    /\ pc = "closed"
    /\ err' = <<Exc("WebSocketException", "")>>
    /\ frames' = <<>>
    /\ closeCode' = WS_1008_POLICY_VIOLATION
    /\ pc' = "closed"
    /\ interrupt_mode' = FALSE
    /\ data' = NoFrame
    /\ op' = "none"
    /\ gInput' = [kind |-> "none", value |-> ""]
    /\ gStarted' = FALSE
    /\ gCount' = 0
    /\ prevEnd' = "none"
    /\ prevFrames' = <<>>
    /\ outstanding' = 0
    /\ call' = NoCall
    /\ turn' = NoTurn
    /\ evSeen' = <<>>
    /\ gExc' = <<>>
    /\ UNCHANGED <<gPending, nFrames, hitl, sendLog>>
    /\ UNCHANGED notSess

Next ==
    \/ ReceiveTooLong \/ ReceiveTurn
    \/ GraphStart \/ GraphEmit \/ GraphGatedCall \/ GraphExhausted \/ GraphRaise
    \/ Disconnect \/ Reconnect \/ ConnectFail \/ ConnectRejected

(***************************************************************************)
(* Two connections of one user open at the same time.  Each runs its own   *)
(* chat() with its own interrupt_mode; both pass the same thread_id, so    *)
(* the suspended call lives in one thread checkpoint.  A frame is taken    *)
(* and its run started in one step; the run's events arrive in later       *)
(* steps, and the other connection may act in between.                     *)
(***************************************************************************)
Connections == {1, 2}

NoDispatch == [connection |-> 0, op |-> "none", interrupted |-> FALSE]

TwoInit ==
    /\ wMode = [c \in Connections |-> FALSE]
    /\ wPc = [c \in Connections |-> "receive"]
    /\ wOp = [c \in Connections |-> "none"]
    /\ wThread = <<>>
    /\ wTurns = 0
    /\ wLast = NoDispatch

\* connection c reads an acceptable frame and starts the run it picks
TwoReceive(c) ==
    /\ wPc[c] = "receive" /\ wTurns < MaxTurns
    /\ LET d == chat_dispatch(wMode[c])
       IN  /\ wOp' = [wOp EXCEPT ![c] = d.op]
           /\ wMode' = [wMode EXCEPT ![c] = d.interrupt_mode]
           /\ wLast' = [connection |-> c, op |-> d.op, interrupted |-> wThread # <<>>]
    /\ wPc' = [wPc EXCEPT ![c] = "stream"]
    \* the run answers the suspended call or leaves it behind
    /\ wThread' = <<>>
    /\ wTurns' = wTurns + 1
    /\ UNCHANGED notTwo

\* connection c reads a frame over the length limit
TwoReject(c) ==
    /\ wPc[c] = "receive" /\ wTurns < MaxTurns
    /\ wMode' = [wMode EXCEPT ![c] = chat_reject(wMode[c]).interrupt_mode]
    /\ wTurns' = wTurns + 1
    /\ UNCHANGED <<wPc, wOp, wThread, wLast>>
    /\ UNCHANGED notTwo

\* the run of connection c yields a raw event and chat() goes through it
TwoDeliver(c, e) ==
    LET r == IF wOp[c] = "resume" THEN resume_agent_after_interrupt(e)
             ELSE stream_agent_events(e)
        b == chat_events(r.out, 1, wMode[c])
    IN  /\ wMode' = [wMode EXCEPT ![c] = b.interrupt_mode]
        /\ wPc' = [wPc EXCEPT ![c] = IF b.broke # "no" \/ r.halt THEN "receive"
                                      ELSE "stream"]

\* the run of connection c yields a node event
TwoEmit(c) ==
    /\ wPc[c] = "stream"
    /\ \E e \in SessionEvents : TwoDeliver(c, e)
    /\ UNCHANGED <<wOp, wThread, wTurns, wLast>>
    /\ UNCHANGED notTwo

\* the run of connection c reaches the gated send tool: the thread keeps the
\* call and the run yields the interrupt
TwoGatedCall(c) ==
    /\ wPc[c] = "stream" /\ wThread = <<>>
    /\ \E ti \in GatedInputs :
          /\ wThread' = <<ti>>
          /\ TwoDeliver(c, Raw(<<interrupt_value(ti)>>, <<>>))
    /\ UNCHANGED <<wOp, wTurns, wLast>>
    /\ UNCHANGED notTwo

\* the run of connection c ends
TwoExhausted(c) ==
    /\ wPc[c] = "stream"
    /\ wPc' = [wPc EXCEPT ![c] = "receive"]
    /\ UNCHANGED <<wMode, wOp, wThread, wTurns, wLast>>
    /\ UNCHANGED notTwo

TwoNext ==
    \E c \in Connections :
        \/ TwoReceive(c) \/ TwoReject(c) \/ TwoEmit(c) \/ TwoGatedCall(c)
        \/ TwoExhausted(c)

(***************************************************************************)
(* create_agent of the three sub-agent managers (agents/email_agent.py,    *)
(* calendar_agent.py, legal_docs_agent.py).  Each runs the calls of its    *)
(* try block in order; the first is guarded by the credential test of the  *)
(* manager's tool getter.  A call returns or raises an exception of some   *)
(* class: "ValueError" stands for ValueError and its subclasses,           *)
(* "Exception" for any other subclass of Exception; load_prompt raises     *)
(* AgentInternalError only (utils.py:9-18).  The message of a raised       *)
(* exception names the call it came from.                                  *)
(***************************************************************************)
AgentManagers == {Managers[i] : i \in 1..Len(Managers)}

\* the calls of the try block, in the order they are made
Steps(agent_name) ==
    IF agent_name = "email_agent"
    THEN <<"gmail_build", "GmailToolkit", "get_tools", "next", "add_human_in_the_loop",
           "load_prompt", "create_react_agent">>
    ELSE IF agent_name = "calendar_agent"
    THEN <<"calendar_build", "CalendarToolkit", "get_tools", "load_prompt",
           "create_react_agent">>
    ELSE <<"MultiServerMCPClient", "get_tools", "load_prompt", "create_react_agent">>

\* the classes a call may raise
Raisable(step) ==
    IF step = "load_prompt" THEN {"AgentInternalError"} ELSE {"ValueError", "Exception"}

NoFault == [step |-> 0, class |-> "none"]
Faults(agent_name) ==
    {NoFault} \cup
    UNION {{[step |-> k, class |-> c] : c \in Raisable(Steps(agent_name)[k])} :
              k \in 1..Len(Steps(agent_name))}

\* google_credentials / legal_docs_token: None or a value
Credentials == {"None", "credentials"}

\* the message of the ValueError the tool getter raises for an absent credential
credentials_required(agent_name) ==
    IF agent_name = "legal_docs_app_agent" THEN "Legal Docs API token is required"
    ELSE "Google credentials are required"

ReturnedAgent(agent_name) == [done |-> TRUE, exc |-> <<>>, agent |-> agent_name]

\* the except clauses of create_agent
create_agent_except(agent_name, e) ==
    IF e.class = "ValueError"
    THEN Exc("AgentInternalError",
             IF agent_name = "legal_docs_app_agent"
             THEN "Legal Docs authorization is required"
             ELSE "Google authorization is required")
    ELSE Exc("AgentInternalError",
             IF agent_name = "email_agent" THEN "Failed to create email agent"
             ELSE IF agent_name = "calendar_agent" THEN "Failed to create calendar agent"
             ELSE "Failed to create legal docs agent")

\* a manager with its credential, and what its calls will do
AgentsInit ==
    /\ aMgr \in AgentManagers
    /\ aCred \in Credentials
    /\ aFault \in Faults(aMgr)
    /\ aCalls = <<>>
    /\ aCaught = <<>>
    /\ aResult = Running

\* `if not self.google_credentials: raise ValueError(...)`, first thing in the try block
CredentialTest ==
    /\ aResult = Running /\ aCalls = <<>> /\ aCaught = <<>>
    /\ aCred = "None"
    /\ aCaught' = <<Exc("ValueError", credentials_required(aMgr))>>
    /\ aResult' = RaisedExc(create_agent_except(aMgr, aCaught'[1]))
    /\ UNCHANGED <<aMgr, aCred, aFault, aCalls>>
    /\ UNCHANGED notAgents

\* the next call of the try block returns
CallReturns ==
    /\ aResult = Running /\ aCred # "None"
    /\ Len(aCalls) < Len(Steps(aMgr))
    /\ aFault.step # Len(aCalls) + 1
    /\ aCalls' = Append(aCalls, Steps(aMgr)[Len(aCalls) + 1])
    /\ UNCHANGED <<aMgr, aCred, aFault, aCaught, aResult>>
    /\ UNCHANGED notAgents

\* the next call of the try block raises, and an except clause takes it
CallRaises ==
    /\ aResult = Running /\ aCred # "None"
    /\ Len(aCalls) < Len(Steps(aMgr))
    /\ aFault.step = Len(aCalls) + 1
    /\ aCalls' = Append(aCalls, Steps(aMgr)[Len(aCalls) + 1])
    /\ aCaught' = <<Exc(aFault.class, Steps(aMgr)[Len(aCalls) + 1])>>
    /\ aResult' = RaisedExc(create_agent_except(aMgr, aCaught'[1]))
    /\ UNCHANGED <<aMgr, aCred, aFault>>
    /\ UNCHANGED notAgents

\* `return email_agent`
CreateReturns ==
    /\ aResult = Running
    /\ Len(aCalls) = Len(Steps(aMgr))
    /\ aResult' = ReturnedAgent(aMgr)
    /\ UNCHANGED <<aMgr, aCred, aFault, aCalls, aCaught>>
    /\ UNCHANGED notAgents

AgentsNext == CredentialTest \/ CallReturns \/ CallRaises \/ CreateReturns

(***************************************************************************)
(* create_custom_handoff_tool (tools.py:88-141).  A string built from      *)
(* pieces is the sequence of its pieces.  The supervisor's tool node       *)
(* invokes the tool with the arguments of the model's tool call; the       *)
(* Command it returns is applied by the parent graph: `update` goes to the *)
(* shared state's messages, each Send starts its node with the given       *)
(* input as that node's state.                                             *)
(***************************************************************************)
Descriptions == {"None", "Ask email_agent for help. Do not suggest email texts to email_agent. Just give him a task."}
SendFullnameArgs == {"None", "True", "False"}
TaskDescriptions == {"Send the contract to John Doe", "Schedule a meeting on Monday"}
PreferencesArgs == {"None", "", "Keep emails short."}
\* InjectedToolCallId; ToolMessage(...) does not validate without one
ToolCallIds == {"call_1", "None"}
\* get_runtime(ContextSchema).context, <<>> when get_runtime raises
Runtimes == {<<>>, [user_full_name |-> "Ann Lee", user_id |-> "1"]}
\* the shared transcript before the handoff
Transcripts == {<<[type |-> "human", content |-> <<"Write to John Doe about the contract">>]>>,
                <<[type |-> "human", content |-> <<"Hello">>],
                  [type |-> "ai", content |-> <<"How can I help?">>]>>}

truthy(v) == v \notin {"None", "", "False"}

create_custom_handoff_tool(agent_name, description, send_fullname) ==
    [name |-> <<"assign_task_to_", agent_name>>,
     description |-> IF truthy(description) THEN <<description>>
                     ELSE <<"Ask ", agent_name, " for help.">>,
     agent_name |-> agent_name,
     send_fullname |-> send_fullname]

ToolMessage(content, name, tool_call_id) ==
    [type |-> "tool", content |-> content, name |-> name, tool_call_id |-> tool_call_id]
HumanMessage(content) == [type |-> "human", content |-> content]
Send(node, arg) == [node |-> node, arg |-> arg]
Command(goto, graph, update) == [goto |-> goto, graph |-> graph, update |-> update]

\* the content of the message handed to the agent, put together piece by piece
handoff_content_no_preferences(tool, task_description, learned_user_preferences, runtime) ==
    <<"Task: ", task_description>>
      \o (IF truthy(tool.send_fullname)
          THEN <<"\nUser fullname: ", runtime.user_full_name>> ELSE <<>>)

handoff_content(tool, task_description, learned_user_preferences, runtime) ==
    <<"Task: ", task_description>>
      \o (IF truthy(tool.send_fullname)
          THEN <<"\nUser fullname: ", runtime.user_full_name>> ELSE <<>>)
      \o (IF truthy(learned_user_preferences)
          THEN <<"\nUser Preferences & Learned Patterns: ", learned_user_preferences,
                 "Please incorporate these preferences into your response.">>
          ELSE <<>>)

\* the body of handoff_tool: the Command returned, or the exception raised
handoff_tool_body(tool, task_description, tool_call_id, learned_user_preferences, runtime) ==
    IF tool_call_id = "None" \/ (truthy(tool.send_fullname) /\ runtime = <<>>)
    THEN RaisedExc(Exc("AgentInternalError",
                       <<"Failed to execute handoff to ", tool.agent_name>>))
    ELSE [done |-> TRUE, exc |-> <<>>,
          command |->
            Command(<<Send(tool.agent_name,
                           [messages |-> <<HumanMessage(
                               handoff_content(tool, task_description,
                                               learned_user_preferences, runtime))>>])>>,
                    "Command.PARENT",
                    [messages |-> <<ToolMessage(<<"Successfully transferred to ",
                                                  tool.agent_name>>,
                                                tool.name, tool_call_id)>>])]

\* a tool built for some agent, a transcript, and a tool call about to be made
HandoffInit ==
    /\ \E agent_name \in AgentManagers, description \in Descriptions,
          send_fullname \in SendFullnameArgs :
          hTool = create_custom_handoff_tool(agent_name, description, send_fullname)
    /\ hArgs \in [task_description : TaskDescriptions, tool_call_id : ToolCallIds,
                  learned_user_preferences : PreferencesArgs]
    /\ hRuntime \in Runtimes
    /\ hMessages \in Transcripts
    /\ hBefore = hMessages
    /\ hSent = <<>>
    /\ hResult = Running

\* the tool node invokes the handoff tool
HandoffInvoke ==
    /\ hResult = Running
    /\ hResult' = handoff_tool_body(hTool, hArgs.task_description, hArgs.tool_call_id,
                                    hArgs.learned_user_preferences, hRuntime)
    /\ UNCHANGED <<hTool, hArgs, hRuntime, hMessages, hBefore, hSent>>
    /\ UNCHANGED notHandoff

\* the parent graph applies the returned Command
HandoffApply ==
    /\ hResult.done /\ hResult.exc = <<>> /\ hSent = <<>>
    /\ hMessages' = hMessages \o hResult.command.update.messages
    /\ hSent' = hResult.command.goto
    /\ UNCHANGED <<hTool, hArgs, hRuntime, hBefore, hResult>>
    /\ UNCHANGED notHandoff

HandoffNext == HandoffInvoke \/ HandoffApply

(***************************************************************************)
(* Client records: the /client endpoints (app/routers/client.py) over      *)
(* DbManager (storage/data_manager.py), and the two lookups of a client's  *)
(* email by name: get_email_from_database of multi_agent_system/agent.py   *)
(* and the tool of the same name of multi_agent_system/tools.py, which the *)
(* email and calendar agents hold.  The table maps a primary key to its    *)
(* row; <<>> stands for None where a row is expected and "None" where a    *)
(* string is.                                                              *)
(***************************************************************************)
Users == {1, 2}
FirstNames == {"John"}
SecondNames == {"Charles"}
LastNames == {"Doe"}
Birthdates == {"1990-01-01", "1991-02-02"}
Emails == {"None", "john.doe@example.com"}

\* schemas.Client, the body of POST /client/add
ClientData == [firstname : FirstNames, second_name : SecondNames,
               lastname : LastNames, birthdate : Birthdates, email : Emails]

\* schemas.ClientUpdate as model_dump(exclude_unset=True) gives it
ClientUpdateData ==
    {[lastname |-> l] : l \in LastNames}
      \cup {[birthdate |-> b] : b \in Birthdates}
      \cup {[email |-> m] : m \in Emails}

HTTPException(status_code, detail) ==
    [raised |-> TRUE, status_code |-> status_code, detail |-> detail, client |-> <<>>]

\* ClientManager.client_in_database
client_in_database(table, c, user_id) ==
    \E i \in DOMAIN table :
        /\ table[i].firstname = c.firstname
        /\ table[i].second_name = c.second_name
        /\ table[i].lastname = c.lastname
        /\ table[i].birthdate = c.birthdate
        /\ table[i].user_id = user_id

\* DbManager.add_object: the row inserted under the next primary key
add_object(table, new_id, c, user_id) ==
    [i \in DOMAIN table \cup {new_id} |->
        IF i = new_id
        THEN [id |-> new_id, firstname |-> c.firstname, second_name |-> c.second_name,
              lastname |-> c.lastname, birthdate |-> c.birthdate, email |-> c.email,
              user_id |-> user_id]
        ELSE table[i]]

\* DbManager.get_object: self._db.get(self._db_model, self._object_id)
get_object(table, object_id) ==
    IF object_id \in DOMAIN table THEN table[object_id] ELSE <<>>

\* DbManager.delete_object
delete_object(table, object_id) ==
    [i \in DOMAIN table \ {object_id} |-> table[i]]

\* DbManager.update_object: the fields set in new_data replace the row's
update_object(table, object_id, new_data) ==
    [table EXCEPT ![object_id] =
        [f \in DOMAIN @ |-> IF f \in DOMAIN new_data THEN new_data[f] ELSE @[f]]]

\* validation.get_client_from_db
get_client_from_db(client_id, found) ==
    IF found = <<>>
    THEN HTTPException(400, "There is no client with id {client_id}")
    ELSE [raised |-> FALSE, status_code |-> 200, detail |-> "", client |-> found]

\* what a request left behind: who asked for what, and the answer
HttpDone(name, user_id, client_id, found, status_code) ==
    [op |-> name, user_id |-> user_id, client_id |-> client_id,
     client |-> found, status_code |-> status_code]

ClientsInit ==
    /\ client = <<>>
    /\ client_id_seq = 0
    /\ cLast = [op |-> "none"]

\* POST /client/add
add_client ==
    /\ client_id_seq < MaxClients
    /\ \E current_user \in Users, c \in ClientData :
        IF client_in_database(client, c, current_user)
        THEN /\ cLast' = HttpDone("add_client", current_user, 0, <<>>, 400)
             /\ UNCHANGED <<client, client_id_seq>>
        ELSE /\ client_id_seq' = client_id_seq + 1
             /\ client' = add_object(client, client_id_seq + 1, c, current_user)
             /\ cLast' = HttpDone("add_client", current_user, client_id_seq + 1,
                                  client'[client_id_seq + 1], 200)
    /\ UNCHANGED notClients

\* GET /client/{client_id}
get_client ==
    /\ \E current_user \in Users, client_id \in 1..MaxClients :
        LET r == get_client_from_db(client_id, get_object(client, client_id))
        IN  cLast' = HttpDone("get_client", current_user, client_id, r.client, r.status_code)
    /\ UNCHANGED <<client, client_id_seq>>
    /\ UNCHANGED notClients

\* DELETE /client/{client_id}
delete_client ==
    /\ \E current_user \in Users, client_id \in 1..MaxClients :
        LET r == get_client_from_db(client_id, get_object(client, client_id))
        IN  /\ cLast' = HttpDone("delete_client", current_user, client_id,
                                 r.client, r.status_code)
            /\ client' = IF r.raised THEN client ELSE delete_object(client, client_id)
    /\ UNCHANGED client_id_seq
    /\ UNCHANGED notClients

\* PATCH /client/{client_id}
update_client ==
    /\ \E current_user \in Users, client_id \in 1..MaxClients,
          new_client_data \in ClientUpdateData :
        LET r == get_client_from_db(client_id, get_object(client, client_id))
        IN  /\ cLast' = HttpDone("update_client", current_user, client_id, r.client,
                                 IF r.raised THEN r.status_code ELSE 204)
            /\ client' = IF r.raised THEN client
                         ELSE update_object(client, client_id, new_client_data)
    /\ UNCHANGED client_id_seq
    /\ UNCHANGED notClients

\* a full name as the agent passes it: words and blanks
FullNames == {<<"John", " ", "Doe">>, <<" ", "John", " ", "Doe", " ">>,
              <<"John", " ", "Roe">>, <<"John">>}
\* the birthdate argument: a date, "" or None
BirthdateArgs == Birthdates \cup {"", "None"}

\* a string built from a template and the values put into it
Text(template, full_name, birthdate) ==
    [type |-> "str", template |-> template, client_full_name |-> full_name,
     birthdate |-> birthdate]
Plain(s) == Text(s, <<>>, "")

\* str.split() of a stripped name
split(text) == SelectSeq(text, LAMBDA t : t # " ")

\* parse_full_name (agent.py:51-58, utils.py:24-29): <<first, last>>, <<>> when it raises
parse_full_name(full_name) ==
    LET name_parts == split(strip(full_name))
    IN  IF Len(name_parts) < 2 THEN <<>> ELSE <<name_parts[1], name_parts[2]>>

\* query.all(): the rows of the given keys, in key order
RECURSIVE all(_, _)
all(table, ids) ==
    IF ids = {} THEN <<>>
    ELSE LET i == CHOOSE k \in ids : \A j \in ids : k <= j
         IN  <<table[i]>> \o all(table, ids \ {i})

\* the query both lookups build: first name, last name and user
name_query(table, first_name, last_name, user_id) ==
    {i \in DOMAIN table : /\ table[i].firstname = first_name
                          /\ table[i].lastname = last_name
                          /\ table[i].user_id = user_id}

\* `not birthdate`
falsy(v) == v = "" \/ v = "None"

\* agent_validation.clients_validation: a Text, or <<>> for None
clients_validation(clients, birthdate, client_full_name, second_check) ==
    IF clients = <<>>
    THEN Text("Error: There is no client with name {client_full_name}",
              client_full_name, "")
    ELSE IF Len(clients) > 1 /\ falsy(birthdate)
    THEN Text("Error: There are several persons with name {client_full_name}. Specify the birthdate.",
              client_full_name, "")
    ELSE IF Len(clients) > 1 /\ ~falsy(birthdate) /\ second_check
    THEN Text("Error: There are several persons with name {client_full_name} and birthdate {birthdate}",
              client_full_name, birthdate)
    ELSE IF Len(clients) = 1
    THEN (IF clients[1].email = "None" THEN <<>> ELSE Plain(clients[1].email))
    ELSE <<>>

\* agent.get_email_from_database under email_db_validation.  Comparing the
\* date column with '' is an error of the database, with None it matches no row.
agent_get_email_from_database(table, client_full_name, user_id, birthdate) ==
    LET name == parse_full_name(client_full_name)
    IN  IF name = <<>>
        THEN Plain("Error: Invalid full name format. Please provide first and last name.")
        ELSE
        LET ids == name_query(table, name[1], name[2], user_id)
            validation_full_name ==
                clients_validation(all(table, ids), birthdate, client_full_name, FALSE)
            ids2 == {i \in ids : table[i].birthdate = birthdate}
            validation_birthdate ==
                clients_validation(all(table, ids2), birthdate, client_full_name, TRUE)
        IN  IF validation_full_name # <<>> THEN validation_full_name
            ELSE IF birthdate = ""
            THEN Plain("Error: Failed to retrieve email from database. Please try again.")
            ELSE IF validation_birthdate # <<>> THEN validation_birthdate
            ELSE Plain("Error while trying to find client's email")

\* tools.get_email_from_database under email_db_validation
tools_get_email_from_database(table, client_full_name, user_id) ==
    LET name == parse_full_name(client_full_name)
    IN  IF name = <<>>
        THEN Plain("Invalid full name format. Please provide first and last name.")
        ELSE LET clients == all(table, name_query(table, name[1], name[2], user_id))
             IN  [type |-> "list",
                  items |-> [k \in 1..Len(clients) |-> clients[k].email]]

\* the ADK agent calls its lookup
LookupAgent ==
    /\ \E client_full_name \in FullNames, user_id \in Users, birthdate \in BirthdateArgs :
        cLast' = [op |-> "agent.get_email_from_database",
                  client_full_name |-> client_full_name, user_id |-> user_id,
                  birthdate |-> birthdate,
                  result |-> agent_get_email_from_database(client, client_full_name,
                                                           user_id, birthdate)]
    /\ UNCHANGED <<client, client_id_seq>>
    /\ UNCHANGED notClients

\* the email or calendar agent calls the tool; user_id is runtime.context.user_id
LookupTool ==
    /\ \E client_full_name \in FullNames, user_id \in Users :
        cLast' = [op |-> "tools.get_email_from_database",
                  client_full_name |-> client_full_name, user_id |-> user_id,
                  birthdate |-> "None",
                  result |-> tools_get_email_from_database(client, client_full_name,
                                                           user_id)]
    /\ UNCHANGED <<client, client_id_seq>>
    /\ UNCHANGED notClients

ClientsNext ==
    \/ add_client \/ get_client \/ delete_client \/ update_client
    \/ LookupAgent \/ LookupTool

(***************************************************************************)
(* Specifications.  Each one runs its own part of the state and holds the  *)
(* rest at rest.                                                           *)
(***************************************************************************)
NormIdle ==
    /\ nRaw = <<>> /\ nOp = "done" /\ nPos = 0 /\ nOut = <<>>
    /\ nHalt = FALSE /\ nLast = <<>> /\ nOutS = <<>> /\ nPosS = 0

ToolIdle ==
    /\ tInput = [message |-> <<>>, to |-> "client@example.com", subject |-> "Contract"]
    /\ tEmail = FALSE /\ tReply = "send it"
    /\ tLlm = [raises |-> TRUE, content |-> <<>>] /\ tTool = "ok"
    /\ tPhase = "finished" /\ tOutcome = Returned("None", <<>>) /\ tInvoked = <<>>
    /\ tCalls = 0

BuildIdle ==
    /\ bCreate = [i \in 1..Len(Managers) |-> "ok"] /\ bSup = "ok" /\ bPos = 0
    /\ bAttempted = <<>> /\ built_agents = <<>> /\ built_handoff_tools = <<>>
    /\ build_info = <<>> /\ bSupMgr = <<>> /\ _supervisor_agent = <<>>
    /\ bResult = ReturnedNone /\ bEndpoint = "chat" /\ bFrames = <<>>

CkptIdle == CkptInit

ClientsIdle == ClientsInit

TwoIdle == TwoInit

HandoffIdle ==
    /\ hTool = create_custom_handoff_tool("email_agent", "None", "None")
    /\ hArgs = [task_description |-> "Send the contract to John Doe",
                tool_call_id |-> "None", learned_user_preferences |-> "None"]
    /\ hRuntime = <<>> /\ hMessages = <<>> /\ hBefore = <<>> /\ hSent = <<>>
    /\ hResult = RaisedExc(Exc("AgentInternalError",
                               <<"Failed to execute handoff to ", "email_agent">>))

AgentsIdle ==
    /\ aMgr = "email_agent" /\ aCred = "credentials" /\ aFault = NoFault
    /\ aCalls = Steps("email_agent") /\ aCaught = <<>>
    /\ aResult = ReturnedAgent("email_agent")

InitNorm == NormInit /\ ToolIdle /\ SessInit /\ BuildIdle /\ CkptIdle /\ ClientsIdle /\ AgentsIdle /\ HandoffIdle /\ TwoIdle
SpecNorm == InitNorm /\ [][NormNext]_vars

InitTool == ToolInit /\ NormIdle /\ SessInit /\ BuildIdle /\ CkptIdle /\ ClientsIdle /\ AgentsIdle /\ HandoffIdle /\ TwoIdle
SpecTool == InitTool /\ [][ToolNext]_vars

Init == SessInit /\ NormIdle /\ ToolIdle /\ BuildIdle /\ CkptIdle /\ ClientsIdle /\ AgentsIdle /\ HandoffIdle /\ TwoIdle
Spec == Init /\ [][Next]_vars

InitBuild == BuildInit /\ NormIdle /\ ToolIdle /\ SessInit /\ CkptIdle /\ ClientsIdle /\ AgentsIdle /\ HandoffIdle /\ TwoIdle
SpecBuild == InitBuild /\ [][BuildNext]_vars

InitCkpt == CkptInit /\ NormIdle /\ ToolIdle /\ SessInit /\ BuildIdle /\ ClientsIdle /\ AgentsIdle /\ HandoffIdle /\ TwoIdle
SpecCkpt == InitCkpt /\ [][CkptNext]_vars

InitClients == ClientsInit /\ NormIdle /\ ToolIdle /\ SessInit /\ BuildIdle /\ CkptIdle /\ AgentsIdle /\ HandoffIdle /\ TwoIdle
SpecClients == InitClients /\ [][ClientsNext]_vars

InitAgents == AgentsInit /\ NormIdle /\ ToolIdle /\ SessInit /\ BuildIdle /\ CkptIdle
                 /\ ClientsIdle /\ HandoffIdle /\ TwoIdle
SpecAgents == InitAgents /\ [][AgentsNext]_vars

InitHandoff == HandoffInit /\ NormIdle /\ ToolIdle /\ SessInit /\ BuildIdle /\ CkptIdle
                  /\ ClientsIdle /\ AgentsIdle /\ TwoIdle
SpecHandoff == InitHandoff /\ [][HandoffNext]_vars

InitTwo == TwoInit /\ NormIdle /\ ToolIdle /\ SessInit /\ BuildIdle /\ CkptIdle
              /\ ClientsIdle /\ AgentsIdle /\ HandoffIdle
SpecTwo == InitTwo /\ [][TwoNext]_vars

(***************************************************************************)
(* Claims on the adapter (SpecNorm).                                       *)
(***************************************************************************)
CarriesInterrupt(e) == e.interrupt # <<>>

CountType(evs, t) == Cardinality({j \in 1..Len(evs) : evs[j].type = t})

\* the operation under iteration, or the finished resume operation
InterruptRule(raw, pos, out, last, halted) ==
    \A k \in 1..pos :
        CarriesInterrupt(raw[k]) =>
            /\ k = pos
            /\ halted
            /\ last = <<[type |-> "interrupt", content |-> raw[k].interrupt[1]]>>
            /\ CountType(out, "interrupt") = 1
            /\ out[Len(out)].type = "interrupt"

\* C6: in stream_agent_events and in resume_agent_after_interrupt, a consumed
\* raw event that carries the interrupt signal yields exactly one event, of
\* type interrupt, whose content is the value of the first interrupt; it is
\* the last raw event the call consumes and the last event the call yields,
\* and a call that ends early without a complete event ended on it.
C6_InterruptYieldsOneEventAndHalts ==
    /\ InterruptRule(nRaw, nPos, nOut, nLast, nHalt)
    /\ nOp # "stream" =>
          /\ \A k \in 1..nPosS : CarriesInterrupt(nRaw[k]) =>
                /\ k = nPosS
                /\ CountType(nOutS, "interrupt") = 1
                /\ nOutS[Len(nOutS)] =
                      [type |-> "interrupt", content |-> nRaw[k].interrupt[1]]
          /\ (nPosS < Len(nRaw) /\ CountType(nOutS, "complete") = 0)
                => CarriesInterrupt(nRaw[nPosS])
    /\ (nOp = "done" /\ nPos < Len(nRaw) /\ CountType(nOut, "complete") = 0)
          => CarriesInterrupt(nRaw[nPos])

\* a two-interrupt event consumed by resume with raw events left unconsumed
C6_Witness ==
    /\ nOp = "done" /\ nPos >= 1 /\ nPos < Len(nRaw)
    /\ Len(nRaw[nPos].interrupt) = 2
    /\ nOut[Len(nOut)] = [type |-> "interrupt", content |-> "confirm-2"]
    /\ nPosS = nPos

IsTerminalSupervisor(n) ==
    /\ n.name = "supervisor"
    /\ n.state.isdict
    /\ n.state.messages # <<>>
    /\ LET m == n.state.messages[Len(n.state.messages)]
       IN  m.kind = "ai" /\ m.content # "" /\ m.finish = "STOP"

HasTerminalSupervisor(e) ==
    ~CarriesInterrupt(e) /\ \E i \in 1..Len(e.nodes) : IsTerminalSupervisor(e.nodes[i])

FirstTerminal(e) ==
    CHOOSE i \in 1..Len(e.nodes) :
        /\ IsTerminalSupervisor(e.nodes[i])
        /\ \A j \in 1..(i - 1) : ~IsTerminalSupervisor(e.nodes[j])

CompleteRule(raw, pos, out, last, halted) ==
    /\ CountType(out, "complete") <= 1
    /\ \A j \in 1..Len(out) : out[j].type = "complete" => j = Len(out)
    /\ \A k \in 1..pos :
          HasTerminalSupervisor(raw[k]) =>
              LET i == FirstTerminal(raw[k])
                  m == raw[k].nodes[i].state.messages[Len(raw[k].nodes[i].state.messages)]
              IN  /\ k = pos
                  /\ halted
                  /\ last # <<>>
                  /\ Len(last) <= i
                  /\ last[Len(last)] = [type |-> "complete", content |-> m.content,
                                        agent |-> m.name]
                  /\ \A j \in 1..(Len(last) - 1) : last[j].type = "message"

\* C7: in both streaming operations, a consumed raw event (without the
\* interrupt signal) whose supervisor entry ends in a non-empty AI message
\* with finish_reason 'STOP' yields one complete event for that entry, not a
\* message event, and nothing for the entries after it; it is the last raw
\* event consumed; every yielded sequence holds at most one complete event,
\* and it is the last event.
C7_CompleteYieldsOnceAndHalts ==
    /\ CompleteRule(nRaw, nPos, nOut, nLast, nHalt)
    /\ nOp # "stream" =>
          /\ CountType(nOutS, "complete") <= 1
          /\ \A j \in 1..Len(nOutS) : nOutS[j].type = "complete" => j = Len(nOutS)
          /\ \A k \in 1..nPosS : HasTerminalSupervisor(nRaw[k]) =>
                (k = nPosS /\ nOutS # <<>> /\ nOutS[Len(nOutS)].type = "complete")

\* stream consumed [sub-agent message, supervisor STOP] in one event and left
\* a raw event unconsumed
C7_Witness ==
    /\ nOp = "stream" /\ nHalt /\ nPos >= 1 /\ nPos < Len(nRaw)
    /\ Len(nRaw[nPos].nodes) = 2
    /\ Len(nLast) = 2
    /\ nLast[1].type = "message" /\ nLast[2].type = "complete"

\* the claim's rules for one node entry
Skipped(n) ==
    \/ n.name \in ReservedNames
    \/ n.state.messages = <<>>
    \/ n.state.messages[Len(n.state.messages)].kind # "ai"
    \/ n.state.messages[Len(n.state.messages)].content = ""

ExpectedEvent(n) ==
    LET m == n.state.messages[Len(n.state.messages)]
    IN  [type |-> IF IsTerminalSupervisor(n) THEN "complete" ELSE "message",
         content |-> m.content, agent |-> m.name]

RECURSIVE ExpectedNodes(_, _)
ExpectedNodes(nodes, i) ==
    IF i > Len(nodes) THEN <<>>
    ELSE IF Skipped(nodes[i]) THEN ExpectedNodes(nodes, i + 1)
    ELSE IF IsTerminalSupervisor(nodes[i]) THEN <<ExpectedEvent(nodes[i])>>
    ELSE <<ExpectedEvent(nodes[i])>> \o ExpectedNodes(nodes, i + 1)

\* C8: reserved ('__') entries, entries without messages and entries whose
\* latest message is not AI-authored or is empty yield no event; every other
\* entry yields exactly one event with the latest message's content and name,
\* of type message unless it is the supervisor's terminal message; and
\* resume_agent_after_interrupt yields, for the same raw events, exactly what
\* stream_agent_events yields, consuming as many of them.
C8_NormalizationRules ==
    /\ (nPos > 0 /\ ~CarriesInterrupt(nRaw[nPos]))
          => nLast = ExpectedNodes(nRaw[nPos].nodes, 1)
    /\ nOp = "done" => (nOut = nOutS /\ nPos = nPosS)

\* both operations went through three raw events, one of them yielding nothing
C8_Witness ==
    /\ nOp = "done" /\ nPosS = 3 /\ Len(nOutS) = 2
    /\ \E k \in 1..3 : nRaw[k].nodes # <<>> /\ nRaw[k].nodes[1].name \in ReservedNames
    /\ nOutS[2].type = "complete"

(***************************************************************************)
(* Claims on the human-in-the-loop wrapper (SpecTool).                     *)
(***************************************************************************)
\* the classifier response contains the word, in either letter case
SaysProceed(content) == \E i \in 1..Len(content) : content[i] \in {"proceed", "PROCEED"}
SaysChanges(content) == \E i \in 1..Len(content) : content[i] = "changes"

GotReply == tCalls = 2

\* C3: for a wrapped tool call that has received a human reply and whose
\* classifier call answered, the response decides the outcome: containing
\* 'proceed' (in any letter case, also next to 'changes'), the base tool is
\* invoked exactly once and what it returns is the result; otherwise,
\* containing 'changes', the base tool is not invoked and the result is the
\* 'User requested modifications' message; otherwise the base tool is not
\* invoked and the result is the 'User cancelled the operation' message.
C3_ThreeWayClassification ==
    (GotReply /\ ~tLlm.raises) =>
        /\ tPhase = "finished"
        /\ tOutcome.kind = "return"
        /\ IF SaysProceed(tLlm.content)
           THEN /\ Len(tInvoked) = 1
                /\ tTool = "ok" => tOutcome.value = tool_response(tInvoked[1])
           ELSE IF SaysChanges(tLlm.content)
           THEN /\ tInvoked = <<>>
                /\ tOutcome.value = MODIFICATIONS(tReply)
           ELSE /\ tInvoked = <<>>
                /\ tOutcome.value = CANCELLED

\* a response holding 'changes' and then 'PROCEED' ran the base tool
C3_Witness ==
    /\ GotReply /\ ~tLlm.raises
    /\ tLlm.content = <<"changes", "PROCEED">>
    /\ tTool = "ok"
    /\ Len(tInvoked) = 1
    /\ tOutcome.value = tool_response(tInvoked[1])

Newlines(message, upto) ==
    Cardinality({j \in 1..upto : message[j] = "\n"})

\* `out` is `message` with each newline replaced by the four characters <br>
IsBrRewrite(message, out) ==
    /\ Len(out) = Len(message) + 3 * Newlines(message, Len(message))
    /\ \A i \in 1..Len(message) :
          LET at == i + 3 * Newlines(message, i - 1)
          IN  IF message[i] = "\n"
              THEN SubSeq(out, at, at + 3) = <<"<", "b", "r", ">">>
              ELSE out[at] = message[i]

\* C4: an email-flavored wrapped tool invokes the base tool, on proceed, with
\* the proposed input in which every newline of the message field is replaced
\* by '<br>' and every other field is unchanged; a wrapped tool that is not
\* email-flavored invokes it with the input exactly as proposed; on changes
\* or cancel nothing is invoked and no input is rewritten.
C4_EmailNewlineRewrite ==
    /\ \A k \in 1..Len(tInvoked) :
          IF tEmail
          THEN /\ IsBrRewrite(tInput.message, tInvoked[k].message)
               /\ tInvoked[k].to = tInput.to
               /\ tInvoked[k].subject = tInput.subject
               /\ DOMAIN tInvoked[k] = DOMAIN tInput
          ELSE tInvoked[k] = tInput
    /\ (GotReply /\ ~tLlm.raises /\ ~SaysProceed(tLlm.content)) => tInvoked = <<>>
    /\ (GotReply /\ ~tLlm.raises /\ SaysProceed(tLlm.content)) => Len(tInvoked) = 1

\* an email-flavored call with a newline and a letter in the message
C4_Witness ==
    /\ tEmail /\ GotReply
    /\ tInput.message = <<"a", "\n">>
    /\ Len(tInvoked) = 1
    /\ tInvoked[1].message = <<"a", "<", "b", "r", ">">>

\* C5: the GraphInterrupt raised by interrupt() leaves the wrapper uncaught
\* (the call ends suspended, carrying the proposed input); an exception of
\* the classifier call or of the base tool is turned into the fixed error
\* string and returned; no execution of the wrapper ends by raising anything
\* else, so it ends suspended or with a result.
C5_InterruptPropagatesErrorsBecomeText ==
    /\ tOutcome.kind \in {"GraphInterrupt", "return"}
    /\ tCalls = 1 =>
          /\ tPhase = "suspended"
          /\ tOutcome = Suspended(interrupt_value(tInput))
    /\ tCalls = 2 =>
          /\ tPhase = "finished"
          /\ tOutcome.kind = "return"
          /\ (tLlm.raises \/ (SaysProceed(tLlm.content) /\ tTool = "Exception"))
                => tOutcome.value = ERROR
          /\ tLlm.raises => tInvoked = <<>>

\* the base tool was invoked, raised, and the call returned the error string
C5_Witness ==
    /\ tCalls = 2 /\ ~tLlm.raises /\ tTool = "Exception"
    /\ Len(tInvoked) = 1
    /\ tOutcome = Returned(ERROR, tInvoked)

(***************************************************************************)
(* Claims on the chat loop and the thread (Spec).                          *)
(***************************************************************************)
\* C1: in a session at most one interrupt is outstanding, and the chat
\* loop's flag says whether one is; the first frame accepted after a turn
\* that ended with an interrupt event goes to resume_agent_after_interrupt
\* with the frame's literal text as the resume payload, and not to
\* stream_agent_events; resume_agent_after_interrupt is called only then,
\* with exactly one interrupt outstanding, which that call answers.
C1_InterruptResumeProtocol ==
    /\ outstanding \in {0, 1}
    /\ interrupt_mode <=> (outstanding = 1)
    /\ (pc = "receive" /\ prevEnd = "interrupt") => interrupt_mode
    /\ call.op = "resume" =>
          /\ call.after = "interrupt"
          /\ call.outstanding = 1
    /\ call.op = "stream" =>
          /\ call.after # "interrupt"
          /\ call.outstanding = 0
    /\ pc = "stream" =>
          /\ call.op = op
          /\ call.payload = data.text
          /\ gInput = [kind |-> IF op = "resume" THEN "resume" ELSE "message",
                       value |-> data.text]
          /\ outstanding = 0

\* the reply to an interrupt reached the suspended call as its resume value
C1_Witness ==
    /\ pc = "stream" /\ call.op = "resume" /\ gStarted
    /\ hitl.reply = <<data.text>>
    /\ data.len = MAX_MESSAGE_LENGTH

Approved(llm) == llm # <<>> /\ ~llm[1].raises /\ SaysProceed(llm[1].content)

\* C2: every invocation of the email agent's base send tool is for a call
\* whose wrapper first raised an interrupt carrying that call's input and
\* whose resume reply was then classified as proceed; a call with no reply
\* yet, with a reply classified as changes or cancel, or whose classifier
\* call failed has invoked nothing.
C2_SendOnlyAfterApproval ==
    /\ \A s \in sendLog :
          /\ s.proposed # <<>>
          /\ s.raised = <<interrupt_value(s.proposed[1])>>
          /\ s.reply # <<>>
          /\ Approved(s.llm)
    /\ hitl.invoked # <<>> =>
          /\ hitl.raised = <<interrupt_value(hitl.input[1])>>
          /\ hitl.reply # <<>>
          /\ Approved(hitl.llm)
    /\ gPending # <<>> => (hitl.input = gPending /\ hitl.invoked = <<>>)

\* one call was approved and sent, a later one awaits its reply
C2_Witness ==
    /\ sendLog # {}
    /\ gPending # <<>>
    /\ hitl.raised # <<>> /\ hitl.reply = <<>>

TagCount(fs, tag) == Cardinality({j \in 1..Len(fs) : fs[j].tag = tag})

\* the frames of a turn without the error frames of rejected client frames
RECURSIVE TurnFrames(_)
TurnFrames(fs) ==
    IF fs = <<>> THEN <<>>
    ELSE IF fs[Len(fs)].tag = "Error" THEN TurnFrames(SubSeq(fs, 1, Len(fs) - 1))
    ELSE fs

\* a resume turn whose reply was classified as proceed is over
RoundTripDone ==
    /\ pc = "receive" /\ call.op = "resume" /\ Approved(turn.llm)

\* C9 as claimed: the round trip delivers exactly one interrupt event and,
\* after the resume, exactly one complete event, with only message events in
\* between, and the gated tool runs exactly once.
C9_Original ==
    RoundTripDone =>
        /\ TagCount(prevFrames, "Agent [INTERRUPT]") = 1
        /\ TagCount(frames, "Agent") = 1
        /\ TagCount(frames, "Agent [INTERRUPT]") = 0
        /\ turn.invocations = 1

\* C9 as amended: the turn that reached the gated call delivered exactly one
\* interrupt event, as its last event; the resume turn whose reply was
\* classified as proceed ran the gated tool exactly once and delivered
\* message events followed by at most one final event, a complete event or a
\* further interrupt event.
C9_RoundTrip ==
    /\ (call.op = "resume" /\ Approved(turn.llm)) =>
          /\ turn.invocations = 1
          /\ TagCount(prevFrames, "Agent [INTERRUPT]") = 1
          /\ TurnFrames(prevFrames)[Len(TurnFrames(prevFrames))].tag = "Agent [INTERRUPT]"
    /\ RoundTripDone =>
          LET fs == TurnFrames(frames)
          IN  /\ fs[1] = Frame("User", call.payload)
              /\ TagCount(fs, "Agent") + TagCount(fs, "Agent [INTERRUPT]") <= 1
              /\ \A j \in 2..(Len(fs) - 1) : fs[j].tag = "Agent [UPDATE]"
              /\ fs[Len(fs)].tag \in {"User", "Agent [UPDATE]", "Agent", "Agent [INTERRUPT]"}
              /\ prevEnd = "complete" <=> fs[Len(fs)].tag = "Agent"
              /\ prevEnd = "interrupt" <=> fs[Len(fs)].tag = "Agent [INTERRUPT]"

\* interrupt, resume classified as proceed, one message, then complete
C9_Witness ==
    /\ RoundTripDone
    /\ turn.invocations = 1
    /\ Len(frames) = 3
    /\ frames[2].tag = "Agent [UPDATE]"
    /\ frames[3] = Frame("Agent", "Done")

\* C10 as claimed: a turn that ended without an error ended with a complete
\* event or with an interrupt event, also when the raw stream was exhausted.
C10_Original ==
    (pc = "receive" /\ prevEnd # "none") => prevEnd \in {"complete", "interrupt"}

\* C10 as amended: the chat loop stands at receive_text() only when no turn
\* has run yet or the latest turn's event loop has ended, by a complete
\* event, by an interrupt event or by exhaustion of the raw graph stream (and
\* then neither event was delivered and the interrupt flag is off); while a
\* turn's events are iterated the frame being processed is the one accepted
\* for it and no final event has been delivered.
C10_TurnsSequential ==
    /\ pc = "receive" =>
          /\ prevEnd \in {"none", "complete", "interrupt", "exhausted"}
          /\ prevEnd = "none" <=> call.op = "none"
          /\ prevEnd = "complete" =>
                TurnFrames(frames)[Len(TurnFrames(frames))].tag = "Agent"
          /\ prevEnd = "interrupt" =>
                TurnFrames(frames)[Len(TurnFrames(frames))].tag = "Agent [INTERRUPT]"
          /\ prevEnd = "exhausted" =>
                /\ TagCount(frames, "Agent") = 0
                /\ TagCount(frames, "Agent [INTERRUPT]") = 0
                /\ ~interrupt_mode
    /\ pc = "stream" =>
          /\ frames[1] = Frame("User", data.text)
          /\ call.payload = data.text
          /\ TagCount(frames, "Agent") = 0
          /\ TagCount(frames, "Agent [INTERRUPT]") = 0
          /\ TagCount(frames, "Error") = 0

\* a turn ended by exhaustion after a message event and the next was accepted
C10_Witness ==
    /\ pc = "stream" /\ call.after = "exhausted"
    /\ TagCount(prevFrames, "Agent [UPDATE]") = 1
    /\ TagCount(prevFrames, "Agent") = 0

(***************************************************************************)
(* Claims on build() (SpecBuild).                                          *)
(***************************************************************************)
Fails(i) == bCreate[i] = "AgentInternalError"
PartialFailure ==
    /\ \E i \in 1..Len(Managers) : Fails(i)
    /\ \E i \in 1..Len(Managers) : ~Fails(i)
TotalFailure == \A i \in 1..Len(Managers) : Fails(i)

\* the names of the first k managers whose create_agent() succeeds, in order
RECURSIVE SucceededUpTo(_)
SucceededUpTo(k) ==
    IF k = 0 THEN <<>>
    ELSE IF Fails(k) THEN SucceededUpTo(k - 1)
    ELSE Append(SucceededUpTo(k - 1), Managers[k])

ToolsOf(agents) == [j \in 1..Len(agents) |-> handoff_tool(agents[j])]

\* C11: when some but not all of the three sub-agent builders fail with
\* AgentInternalError, every builder is attempted, in the order email,
\* calendar, legal-docs, whatever failed before; build_info maps each
\* attempted agent name to whether it was built; the supervisor manager is
\* constructed with exactly the built agents and exactly their handoff tools,
\* in that order; and build() returns without raising when building the
\* supervisor itself does not fail.
C11_PartialBuild ==
    PartialFailure =>
        /\ bAttempted = SubSeq(Managers, 1, bPos)
        /\ built_agents = SucceededUpTo(bPos)
        /\ built_handoff_tools = ToolsOf(SucceededUpTo(bPos))
        /\ DOMAIN build_info = {Managers[i] : i \in 1..bPos}
        /\ \A i \in 1..bPos : build_info[Managers[i]] = ~Fails(i)
        /\ bResult.done =>
              /\ bPos = Len(Managers)
              /\ bSupMgr # <<>> =>
                    bSupMgr[1] = [agents |-> SucceededUpTo(Len(Managers)),
                                  handoff_tools |-> ToolsOf(SucceededUpTo(Len(Managers)))]
              /\ bSup = "ok" =>
                    /\ bResult = ReturnedNone
                    /\ bSupMgr # <<>>
                    /\ _supervisor_agent = bSupMgr
              /\ bResult.exc # <<>> =>
                    /\ bSup # "ok"
                    /\ _supervisor_agent = <<>>

\* the email builder failed, the two others did not, build() returned
C11_Witness ==
    /\ Fails(1) /\ ~Fails(2) /\ ~Fails(3)
    /\ bResult = ReturnedNone
    /\ built_agents = <<"calendar_agent", "legal_docs_app_agent">>
    /\ build_info["email_agent"] = FALSE
    /\ _supervisor_agent[1].handoff_tools =
          <<handoff_tool("calendar_agent"), handoff_tool("legal_docs_app_agent")>>

\* C12: when all three sub-agent builders fail, build() raises
\* AgentInternalError 'Failed to build any agents - cannot create supervisor
\* system', no SupervisorAgentManager is constructed, _supervisor_agent stays
\* None, and the endpoint never enters chat(), so no streaming operation runs.
C12_TotalBuildFailure ==
    /\ TotalFailure =>
          /\ bSupMgr = <<>>
          /\ _supervisor_agent = <<>>
          /\ bEndpoint # "chat"
          /\ bResult.done =>
                bResult = RaisedExc(Exc("AgentInternalError",
                     "Failed to build any agents - cannot create supervisor system"))
    /\ bEndpoint = "chat" => _supervisor_agent # <<>>

\* all three failed, build() raised and the endpoint closed the session
C12_Witness ==
    /\ TotalFailure
    /\ bAttempted = Managers
    /\ bResult.exc # <<>>
    /\ bEndpoint = "closed"
    /\ build_info = [n \in {"email_agent", "calendar_agent", "legal_docs_app_agent"} |-> FALSE]

(***************************************************************************)
(* Claims on the checkpointer (SpecCkpt).                                  *)
(***************************************************************************)
NoFailure == \A i \in 1..Len(kCall) : kCall[i].exc = <<>>
NoClose == kClose = <<>>

\* C13: as long as no get_checkpointer call has failed and close_checkpointer
\* has not been called, all calls that have returned, whether they ran one
\* after the other or entered while another awaited setup(), returned the
\* same store handle, the one held by the global; and once a call has been
\* made the pool was created exactly once, the store handle constructed
\* exactly once and its setup() called exactly once.
C13_IdempotentAcquisition ==
    (NoFailure /\ NoClose) =>
        /\ \A i \in 1..Len(kCall) :
              kCall[i].pc = "returned" =>
                  /\ kCall[i].result # 0
                  /\ kCall[i].result = _checkpointer
        /\ \A i, j \in 1..Len(kCall) :
              (kCall[i].pc = "returned" /\ kCall[j].pc = "returned")
                  => kCall[i].result = kCall[j].result
        /\ Len(kCall) >= 1 => (kPools = 1 /\ kSavers = 1 /\ kSetups = 1)

\* three calls, the second and third entered while the first awaited setup()
C13_Witness ==
    /\ NoFailure /\ NoClose
    /\ Len(kCall) = 3
    /\ kCall[1].handle # 0
    /\ kCall[2].entry.cp = kCall[1].handle
    /\ \A i \in 1..3 : kCall[i].pc = "returned" /\ kCall[i].result = kCall[1].handle
    /\ kCall[2].after = kCall[3].after

\* C14: a get_checkpointer call in which the pool construction, the store
\* construction or setup() fails raises CheckpointerError('Error while
\* getting the database connection'); the globals are then what the call had
\* made them when the failure happened (pool failure: as at entry; store
\* failure: the pool assigned, no checkpointer; setup failure: pool and
\* checkpointer assigned), a global once assigned is never reset, and the
\* call constructs or sets up nothing a second time.
C14_FailureLeavesGlobals ==
    /\ \A i \in 1..Len(kCall) :
          /\ kCall[i].pools <= 1 /\ kCall[i].savers <= 1 /\ kCall[i].setups <= 1
          /\ kCall[i].exc # <<>> =>
                /\ kCall[i].exc = <<CheckpointerError>>
                /\ kCall[i].pc = "raised"
                /\ kCall[i].fault = "pool" =>
                      /\ kCall[i].after = kCall[i].entry
                      /\ kCall[i].pools = 0 /\ kCall[i].savers = 0
                /\ kCall[i].fault = "saver" =>
                      /\ kCall[i].after.pool # 0
                      /\ kCall[i].entry.pool # 0 => kCall[i].after.pool = kCall[i].entry.pool
                      /\ kCall[i].after.cp = 0
                      /\ kCall[i].savers = 0 /\ kCall[i].setups = 0
                /\ kCall[i].fault = "setup" =>
                      /\ kCall[i].after.pool # 0
                      /\ kCall[i].after.cp = kCall[i].handle
                      /\ kCall[i].handle # 0
    /\ kPools > 0 => _connection_pool # 0
    /\ kSavers > 0 => _checkpointer # 0
    /\ kPools <= 1

\* the store construction failed in one call, setup() in the next, and a
\* third call got the handle the second had left in the global
C14_Witness ==
    /\ Len(kCall) = 3
    /\ kCall[1].fault = "saver"
    /\ kCall[2].fault = "setup" /\ kCall[2].pools = 0
    /\ kCall[3].pc = "returned" /\ kCall[3].result = kCall[2].handle

\* C15: every close_checkpointer call returns: without awaiting anything
\* when no pool was created, after awaiting the pool's close() when there is
\* one, also when that close() raises and when the pool was closed before.
C15_CloseNeverRaises ==
    \A j \in 1..Len(kClose) :
        /\ kClose[j].result = ReturnedNone
        /\ kClose[j].pool = 0 => kClose[j].closed = <<>>
        /\ kClose[j].pool # 0 => kClose[j].closed = <<kClose[j].pool>>

\* a close before any pool exists, then a close whose pool.close() raises
C15_Witness ==
    /\ Len(kClose) = 2
    /\ kClose[1].pool = 0 /\ kClose[1].closed = <<>>
    /\ kClose[2].raises /\ kClose[2].closed # <<>>
    /\ kClose[2].result = ReturnedNone

(***************************************************************************)
(* Claims on failures and frames of a session (Spec).                      *)
(***************************************************************************)
TagOf(type) ==
    IF type = "interrupt" THEN "Agent [INTERRUPT]"
    ELSE IF type = "complete" THEN "Agent"
    ELSE "Agent [UPDATE]"

\* the frames chat() sends for a sequence of events
EventFrames(evs) == [j \in 1..Len(evs) |-> Frame(TagOf(evs[j].type), evs[j].content)]

\* C16: an exception raised while the graph's event stream is started or
\* iterated leaves stream_agent_events as AgentInternalError('Failed to
\* stream agent events') and resume_agent_after_interrupt as
\* AgentInternalError('Failed to resume agent after interrupt'), whatever
\* its own class and message; the events yielded before it were delivered
\* and stay so, and none is yielded after it.
C16_StreamErrorsAreTyped ==
    gExc # <<>> =>
        /\ pc = "closed"
        /\ err = <<Exc("AgentInternalError",
                       IF call.op = "resume" THEN "Failed to resume agent after interrupt"
                       ELSE "Failed to stream agent events")>>
        /\ err[1].msg # gExc[1].msg
        /\ \A j \in 1..Len(evSeen) : evSeen[j].type = "message"
        /\ frames = <<Frame("User", call.payload)>> \o EventFrames(evSeen)
                        \o <<Frame("Error", err[1].msg)>>

\* a resumed run yielded a message event and then raised
C16_Witness ==
    /\ gExc # <<>>
    /\ call.op = "resume"
    /\ Len(evSeen) = 1
    /\ frames[2].tag = "Agent [UPDATE]"
    /\ frames[3] = Frame("Error", "Failed to resume agent after interrupt")

\* C17: receiving a frame of more than 40,000 characters sends exactly one
\* error frame and nothing else, no echo; no streaming operation is called
\* and the graph is left alone; the interrupt flag and the outstanding
\* interrupt stay as they are; chat() goes back to receive_text().  A frame
\* accepted while an interrupt is outstanding, also after such rejections,
\* is passed to resume_agent_after_interrupt.
C17_OversizeRejected ==
    [][ /\ (nFrames' = nFrames + 1 /\ data'.len > MAX_MESSAGE_LENGTH) =>
              /\ frames' = Append(frames,
                     Frame("Error", "Message too long. Maximum 40000 characters allowed."))
              /\ pc = "receive" /\ pc' = "receive"
              /\ closeCode' = 0 /\ err' = <<>>
              /\ UNCHANGED <<interrupt_mode, outstanding, op, call, gInput, gStarted,
                             gCount, gPending, prevEnd, hitl, sendLog, turn, evSeen>>
        /\ (nFrames' = nFrames + 1 /\ ~(data'.len > MAX_MESSAGE_LENGTH)
                /\ outstanding = 1) =>
              /\ call'.op = "resume"
              /\ call'.payload = data'.text
              /\ outstanding' = 0
      ]_vars

\* an interrupt, then a rejected frame, then the reply that resumes the run
C17_Witness ==
    /\ pc = "stream" /\ call.op = "resume" /\ nFrames = 3
    /\ Len(prevFrames) = 3
    /\ prevFrames[2].tag = "Agent [INTERRUPT]"
    /\ prevFrames[3] = Frame("Error", "Message too long. Maximum 40000 characters allowed.")

IsFailure(e) == e.class \notin {"WebSocketDisconnect", "WebSocketException"}

\* C18 as claimed: an unrecoverable error is answered by one error frame and
\* an error close code, and every user-visible failure is a single text frame
\* followed by the closure of the connection.
C18_Original ==
    /\ (err # <<>> /\ IsFailure(err[1])) =>
          /\ pc = "closed" /\ closeCode = WS_1011_INTERNAL_ERROR
          /\ frames # <<>> /\ frames[Len(frames)] = Frame("Error", err[1].msg)
    /\ \A j \in 1..Len(frames) :
          frames[j].tag = "Error" => (j = Len(frames) /\ pc = "closed" /\ closeCode # 0)
    /\ (pc = "closed" /\ closeCode # 0) =>
          (frames # <<>> /\ frames[Len(frames)].tag = "Error")

\* C18 as amended: an exception that reaches the endpoint's handlers, other
\* than the client's disconnect, is answered by exactly one 'Error: <str(e)>'
\* frame followed by closure with code 1011, and that frame is the last of
\* the connection; code 1011 is sent for nothing else.  The two other
\* user-visible failures have other shapes: an over-long frame is answered
\* by an error frame with the session going on, and a connection without a
\* valid token is closed with code 1008 without any frame.
C18_ErrorFrameThenClose ==
    /\ (err # <<>> /\ IsFailure(err[1])) =>
          /\ pc = "closed" /\ closeCode = WS_1011_INTERNAL_ERROR
          /\ frames # <<>> /\ frames[Len(frames)] = Frame("Error", err[1].msg)
          /\ TagCount(frames, "Error") = 1
    /\ closeCode = WS_1011_INTERNAL_ERROR => (err # <<>> /\ IsFailure(err[1]))
    /\ pc # "closed" =>
          /\ err = <<>> /\ closeCode = 0
          /\ \A j \in 1..Len(frames) :
                frames[j].tag = "Error" =>
                    /\ pc = "receive"
                    /\ frames[j].content = "Message too long. Maximum 40000 characters allowed."
    /\ (err # <<>> /\ err[1].class = "WebSocketException") =>
          (frames = <<>> /\ closeCode = WS_1008_POLICY_VIOLATION)
    /\ (err # <<>> /\ err[1].class = "WebSocketDisconnect") =>
          (closeCode = 0 /\ \A j \in 1..Len(frames) :
                               frames[j].tag = "Error" =>
                                   frames[j].content = "Message too long. Maximum 40000 characters allowed.")

\* a resumed run failed after a message event: one error frame, then closed
C18_Witness ==
    /\ pc = "closed" /\ closeCode = WS_1011_INTERNAL_ERROR
    /\ gExc # <<>> /\ call.op = "resume"
    /\ Len(frames) = 3
    /\ frames[3].tag = "Error"

\* the messages the code itself gives to the exceptions it raises
GenericMessages ==
    { "Message too long. Maximum 40000 characters allowed.",
      "Failed to stream agent events",
      "Failed to resume agent after interrupt",
      "Failed to build any agents - cannot create supervisor system",
      "Failed to create supervisor agent",
      "User must authenticate with google",
      "Authentication failed. Please try again.",
      "Database server is unavailable. Please try again later." }

\* C19: the text of every error frame is one of the fixed messages of the
\* code, and the message of an exception of a class the endpoint does not
\* know is never sent as it is.
C19_GenericErrorText ==
    /\ \A j \in 1..Len(frames) :
          frames[j].tag = "Error" => frames[j].content \in GenericMessages
    /\ (err # <<>> /\ err[1].class \notin {"AgentInternalError", "OAuthError",
                                           "DatabaseError", "WebSocketDisconnect",
                                           "WebSocketException"}) =>
          \A j \in 1..Len(frames) : frames[j].content # err[1].msg

\* C20: the frames of an accepted turn are the echo 'User: <text>' of the
\* accepted frame, then one frame per event taken from the generator, in
\* order, tagged 'Agent [UPDATE]' for a message event, 'Agent' for a complete
\* event and 'Agent [INTERRUPT]' for an interrupt event; a complete or
\* interrupt event is the last event of its turn, and once it is sent chat()
\* is back at receive_text(): nothing but error frames follows until the
\* next accepted frame.
C20_FrameOrder ==
    call.op # "none" =>
        /\ TurnFrames(frames) = <<Frame("User", call.payload)>> \o EventFrames(evSeen)
        /\ \A j \in 1..(Len(evSeen) - 1) : evSeen[j].type = "message"
        /\ (evSeen # <<>> /\ evSeen[Len(evSeen)].type \in {"complete", "interrupt"})
              => pc \in {"receive", "closed"}
        /\ \A j \in 1..Len(frames) :
              (frames[j].tag \in {"Agent", "Agent [INTERRUPT]"}) =>
                  \A k \in (j + 1)..Len(frames) : frames[k].tag = "Error"

\* echo, one update, the final answer, and then a rejected frame
C20_Witness ==
    /\ pc = "receive"
    /\ Len(frames) = 4
    /\ frames[1].tag = "User"
    /\ frames[2].tag = "Agent [UPDATE]"
    /\ frames[3].tag = "Agent"
    /\ frames[4].tag = "Error"

(***************************************************************************)
(* Claims on client records (SpecClients).                                 *)
(***************************************************************************)
IsLookup == cLast.op \in {"agent.get_email_from_database", "tools.get_email_from_database"}

\* R: the rows of the requesting user whose first and last name are the
\* ones asked for
LookupR ==
    LET name == parse_full_name(cLast.client_full_name)
    IN  {i \in DOMAIN client : /\ client[i].firstname = name[1]
                               /\ client[i].lastname = name[2]
                               /\ client[i].user_id = cLast.user_id}

NotFoundText ==
    Text("Error: There is no client with name {client_full_name}",
         cLast.client_full_name, "")
SpecifyBirthdateText ==
    Text("Error: There are several persons with name {client_full_name}. Specify the birthdate.",
         cLast.client_full_name, "")
SeveralWithBirthdateText ==
    Text("Error: There are several persons with name {client_full_name} and birthdate {birthdate}",
         cLast.client_full_name, cLast.birthdate)
EmailOf(ids) == Plain(client[CHOOSE i \in ids : TRUE].email)

\* C21: a lookup of a client's email by first and last name, with R the
\* requesting user's matching rows and B the optional birthdate, answers the
\* not-found text when R is empty, the row's email when R has one row, the
\* 'specify the birthdate' text when R has several rows and no B is given,
\* and with B given, after filtering R by B: the email when one row remains,
\* the not-found text when none remains, the 'several persons with name and
\* birthdate' text when several remain.
C21_DisambiguationLaw ==
    (IsLookup /\ parse_full_name(cLast.client_full_name) # <<>>) =>
        LET R == LookupR
            B == cLast.birthdate
            RB == {i \in R : client[i].birthdate = B}
        IN  cLast.result =
              (IF R = {} THEN NotFoundText
               ELSE IF Cardinality(R) = 1 THEN EmailOf(R)
               ELSE IF B \in {"", "None"} THEN SpecifyBirthdateText
               ELSE IF Cardinality(RB) = 1 THEN EmailOf(RB)
               ELSE IF RB = {} THEN NotFoundText
               ELSE SeveralWithBirthdateText)

\* C30: a get, update or delete of client id c requested by user u succeeds
\* only if client c is owned by u.
C30_TenantIsolation ==
    (cLast.op \in {"get_client", "update_client", "delete_client"}
       /\ cLast.status_code < 400)
        => cLast.client.user_id = cLast.user_id

(***************************************************************************)
(* Claims on the sub-agent builders (SpecAgents).                          *)
(***************************************************************************)
AuthorizationRequired(agent_name) ==
    IF agent_name = "legal_docs_app_agent" THEN "Legal Docs authorization is required"
    ELSE "Google authorization is required"
FailedToCreate(agent_name) ==
    IF agent_name = "email_agent" THEN "Failed to create email agent"
    ELSE IF agent_name = "calendar_agent" THEN "Failed to create calendar agent"
    ELSE "Failed to create legal docs agent"

\* C22: with an absent credential or token, create_agent fails with the
\* typed 'authorization is required' error before any call is made; every
\* other failure during construction fails with the typed generic 'Failed
\* to create <domain> agent' error; no other exception type escapes.
C22_BuilderErrorMapping ==
    aResult.exc # <<>> =>
        /\ aResult.exc[1].class = "AgentInternalError"
        /\ aCred = "None" =>
              /\ aResult.exc[1].msg = AuthorizationRequired(aMgr)
              /\ aCalls = <<>>
        /\ aCred # "None" => aResult.exc[1].msg = FailedToCreate(aMgr)

(***************************************************************************)
(* Claims on the handoff tool (SpecHandoff).                               *)
(***************************************************************************)
\* C23: the handoff tool built for agent A is named 'assign_task_to_A'; an
\* invocation returns one Command at parent-graph scope whose update is one
\* acknowledgement tool message, appended to the shared transcript, and
\* whose one Send gives agent A an input of exactly one human message made
\* of the task description, the user's full name iff send_fullname is set
\* and the preferences note iff one is given, and of no message of the
\* transcript; an invocation that fails raises AgentInternalError naming A.
C23_HandoffTool ==
    LET A == hTool.agent_name
        asked == hArgs.learned_user_preferences
    IN
    /\ hTool.name = <<"assign_task_to_", A>>
    /\ (hResult.done /\ hResult.exc # <<>>) =>
          /\ hResult.exc[1] =
                Exc("AgentInternalError", <<"Failed to execute handoff to ", A>>)
          /\ hSent = <<>> /\ hMessages = hBefore
    /\ (hResult.done /\ hResult.exc = <<>>) =>
          LET c == hResult.command
              sent == c.goto[1].arg.messages
          IN  /\ c.graph = "Command.PARENT"
              /\ Len(c.goto) = 1 /\ c.goto[1].node = A
              /\ DOMAIN c.goto[1].arg = {"messages"}
              /\ Len(sent) = 1 /\ sent[1].type = "human"
              /\ sent[1].content =
                    <<"Task: ", hArgs.task_description>>
                      \o (IF hTool.send_fullname = "True"
                          THEN <<"\nUser fullname: ", hRuntime.user_full_name>>
                          ELSE <<>>)
                      \o (IF asked \notin {"None", ""}
                          THEN <<"\nUser Preferences & Learned Patterns: ", asked,
                                 "Please incorporate these preferences into your response.">>
                          ELSE <<>>)
              /\ \A k \in 1..Len(hBefore) : hBefore[k] # sent[1]
              /\ Len(c.update.messages) = 1
              /\ c.update.messages[1] =
                    ToolMessage(<<"Successfully transferred to ", A>>,
                                <<"assign_task_to_", A>>, hArgs.tool_call_id)
              /\ hSent # <<>> =>
                    /\ hMessages = Append(hBefore, c.update.messages[1])
                    /\ hSent = c.goto

\* a handoff to the email agent with the full name and a preferences note,
\* applied to a transcript of two earlier messages
C23_Witness ==
    /\ hTool.agent_name = "email_agent" /\ hTool.send_fullname = "True"
    /\ hArgs.learned_user_preferences = "Keep emails short."
    /\ Len(hBefore) = 2 /\ Len(hMessages) = 3
    /\ Len(hSent) = 1 /\ Len(hSent[1].arg.messages[1].content) = 7

(***************************************************************************)
(* Claims on a thread used over several connections (Spec).                *)
(***************************************************************************)
\* C24: when a connection ended while the thread kept a suspended gated
\* call, the first frame accepted on a later connection of the same user
\* goes to the graph as the resume payload for that interrupt, not as a
\* fresh turn.
C24_InterruptSurvivesConnection ==
    (pc = "stream" /\ ~gStarted /\ call.after = "none" /\ gPending # <<>>)
        => (call.op = "resume" /\ gInput.kind = "resume")

(***************************************************************************)
(* Claims on the store handle's readiness (SpecCkpt).                      *)
(***************************************************************************)
\* the call that constructed handle h came back from setup() without raising
SetupCompleted(h) ==
    \E i \in 1..Len(kCall) : kCall[i].handle = h /\ kCall[i].pc = "returned"

\* C25: get_checkpointer hands out a store handle only once its setup()
\* has completed successfully: no call has returned a handle whose setup is
\* still awaited or has failed.
C25_HandleOnlyAfterSetup ==
    \A j \in 1..Len(kCall) :
        kCall[j].pc = "returned" => SetupCompleted(kCall[j].result)

\* close() of pool p was awaited and returned
PoolClosed(p) ==
    \E k \in 1..Len(kClose) : kClose[k].closed = <<p>> /\ ~kClose[k].raises

\* call j returns in this step
ReturnsNow(j) ==
    /\ kCall'[j].pc = "returned"
    /\ (j > Len(kCall) \/ kCall[j].pc # "returned")

\* C26: whenever get_checkpointer returns a handle, the connection pool
\* behind it has not been closed.
C26_HandleOverOpenPool ==
    [][\A j \in 1..Len(kCall') : ReturnsNow(j) => ~PoolClosed(_connection_pool)]_vars

(***************************************************************************)
(* Claims on one raw event in the adapter (SpecNorm).                      *)
(***************************************************************************)
\* the node entries of a raw event that give an event of type t
EntriesGiving(e, t) ==
    {i \in 1..Len(e.nodes) :
        LET result == _process_node_messages(e.nodes[i].name, e.nodes[i].state)
        IN  result # <<>> /\ result[1].type = t}

\* C28: of the latest raw event consumed, in either streaming operation: if
\* it carries the interrupt key, exactly one interrupt event was yielded for
\* it and no message or complete event, whatever its node entries; if one
\* of its node entries gives complete, the first such entry's event is the
\* last one yielded for it, preceded by one message event for each earlier
\* entry that gives one, and the entries after it yield nothing.
C28_PrecedenceWithinOneEvent ==
    (nPos > 0 /\ nOp \in {"stream", "resume"}) =>
        LET e == nRaw[nPos]
            completes == EntriesGiving(e, "complete")
        IN  /\ CarriesInterrupt(e) =>
                  /\ Len(nLast) = 1
                  /\ nLast[1].type = "interrupt"
                  /\ nHalt
            /\ (~CarriesInterrupt(e) /\ completes # {}) =>
                  LET first == CHOOSE i \in completes : \A j \in completes : i <= j
                      before == {i \in EntriesGiving(e, "message") : i < first}
                  IN  /\ Len(nLast) = Cardinality(before) + 1
                      /\ nLast[Len(nLast)].type = "complete"
                      /\ \A j \in 1..(Len(nLast) - 1) : nLast[j].type = "message"
                      /\ nHalt

\* resume_agent_after_interrupt consumed an event that carries the interrupt
\* key together with a supervisor entry that would give complete
C28_Witness ==
    /\ nOp = "resume" /\ nPos > 0
    /\ CarriesInterrupt(nRaw[nPos])
    /\ EntriesGiving(nRaw[nPos], "complete") # {}
    /\ nLast = <<[type |-> "interrupt", content |-> "confirm-1"]>>

(***************************************************************************)
(* Claims on what build() leaves behind (SpecBuild).                       *)
(***************************************************************************)
\* C29: whether build() returns or raises, build_info has exactly the three
\* agent names as keys, each written once in the loop, true iff that agent's
\* create_agent succeeded; _supervisor_agent is set iff build() returned
\* normally; and when build() raises, it raises AgentInternalError, the
\* reference left unset.
C29_BuildPostcondition ==
    bResult.done =>
        /\ bAttempted = Managers
        /\ DOMAIN build_info = {Managers[i] : i \in 1..Len(Managers)}
        /\ \A i \in 1..Len(Managers) : build_info[Managers[i]] = ~Fails(i)
        /\ (_supervisor_agent # <<>>) <=> (bResult = ReturnedNone)
        /\ bResult.exc # <<>> =>
              /\ bResult.exc[1].class = "AgentInternalError"
              /\ _supervisor_agent = <<>>

(***************************************************************************)
(* Claims on two connections of one user (SpecTwo).                        *)
(***************************************************************************)
\* C27: for two simultaneously open connections of the same user, the
\* interrupt flag of each connection waiting for a frame agrees with whether
\* the shared thread has an outstanding interrupt; no frame is started as a
\* fresh turn while the thread is interrupted, and no frame is sent as a
\* resume payload while no interrupt is outstanding.
C27_FlagsAgreeWithThread ==
    /\ \A c \in Connections :
          wPc[c] = "receive" => (wMode[c] <=> wThread # <<>>)
    /\ wLast.op = "stream" => ~wLast.interrupted
    /\ wLast.op = "resume" => wLast.interrupted

====
